---- MODULE Spec2Model ----
(***************************************************************************)
(* Verification model of the decision-tree core of deadcore/rune:          *)
(*   src/src/tree/src/lib.rs            DecisionTreeClassifier / Node /    *)
(*                                      Model (fit, build_tree, predict)   *)
(*   src/src/tree/feature_selector/greedy_feature_selector.rs              *)
(*                                      GreedyFeatureSelector              *)
(*   src/src/tree/src/measures/entropy.rs  EntropySelectionMeasure/entropy *)
(*   src/src/math/histogram.rs          histogram                          *)
(*                                                                         *)
(* Indexes are 0-based as in the source; TLA+ sequences are 1-based, so an *)
(* index i of the source addresses element i + 1 of a sequence.            *)
(*                                                                         *)
(* f64 scores.  entropy(ds) = -sum p*log2(p) is irrational in general, so  *)
(* the model carries the exact rational 2^(len * entropy) =                *)
(* len^len / prod(count^count) and compares scores by cross               *)
(* multiplication.  Every comparison the code makes between two scores, or *)
(* between a score and a constant, is decided exactly as over the reals;   *)
(* rounding of the last bits of an f64 is not modelled.                    *)
(***************************************************************************)
EXTENDS Integers, Sequences, FiniteSets, TLC

\* ---------------------------------------------------------------- bounds
MaxRows == 3
MaxMaxDepth == 1
MaxMinSize == 3
MaxPredictRows == 2
MaxHeight == 1
MaxFitCalls == 2
MaxPredictCalls == 2
MaxDatasetLen == 4
MaxItems == 3
MaxSplitRows == 3
MaxClassLabels == 3
MaxPairs == 3
MaxLegacyDepth == 2
MaxLegacyRows == 4

\* the label type, the f64 feature values and the column counts x.ncols():
\* small domains, enough for ties between scores, for values equal to and
\* on either side of a threshold and for splits on either column
Labels == {"A", "B"}
Values == {1, 2}
ColumnCounts == {1, 2}

\* ------------------------------------------------------- ndarray helpers
\* An ArrayView2<f64>: ncols is kept explicitly because a matrix with no
\* rows still has a column count.
Matrices(maxRows) ==
    UNION { { [ncols |-> m, rows |-> r] : r \in [1..n -> [1..m -> Values]] }
            : <<n, m>> \in (0..maxRows) \X ColumnCounts }

LabelVectors == UNION { [1..n -> Labels] : n \in 0..MaxRows }

nrows(x) == Len(x.rows)

\* ArrayView2::column(column_index)
column(x, column_index) == [i \in 1..nrows(x) |-> x.rows[i][column_index + 1]]

\* ArrayBase::select(Axis(0), indexes) on a vector; the source panics when
\* an index is out of bounds (SelectInBounds is its precondition).
SelectInBounds(len, indexes) == \A k \in 1..Len(indexes) : indexes[k] < len

select(ds, indexes) == [k \in 1..Len(indexes) |-> ds[indexes[k] + 1]]

\* a select on a matrix that keeps every row
selectRowsAll(x, indexes) == x

\* ArrayBase::select(Axis(0), indexes) on a matrix
selectRows(x, indexes) == [ncols |-> x.ncols, rows |-> select(x.rows, indexes)]

IndexSet(indexes) == { indexes[k] : k \in 1..Len(indexes) }

\* the index vector 0, 1, .., n - 1
AllIndexes(n) == [i \in 1..n |-> i - 1]

\* ---------------------------------------------------------- histogram.rs
\* histogram without and_modify: an element seen again leaves its count at 1
histogram_no_modify(ds) ==
    [elem \in { ds[i] : i \in 1..Len(ds) } |-> 1]

histogram(ds) ==
    [elem \in { ds[i] : i \in 1..Len(ds) } |->
        Cardinality({ i \in 1..Len(ds) : ds[i] = elem })]

\* ------------------------------------------------------------ entropy.rs
RECURSIVE Pow(_, _)
Pow(b, e) == IF e = 0 THEN 1 ELSE b * Pow(b, e - 1)

RECURSIVE ProdPow(_, _)
ProdPow(h, keys) ==
    IF keys = {} THEN 1
    ELSE LET k == CHOOSE k \in keys : TRUE
         IN Pow(h[k], h[k]) * ProdPow(h, keys \ {k})

\* entropy(dataset) = -sum (h/len) * log2(h/len), carried as the exact
\* rational  2^(len * entropy) = num / den.
entropy(dataset) ==
    LET distribution == histogram(dataset)
    IN [num |-> Pow(Len(dataset), Len(dataset)),
        den |-> ProdPow(distribution, DOMAIN distribution)]

\* the test `entropy == 0.`  (also true of the -0.0 of an empty vector)
EntropyIsZero(e) == e.num = e.den

\* EntropySelectionMeasure::apply without the weighted entropy of the right
\* side
SelectionMeasureApplyLeftOnly(dataset, left_indexes, right_indexes) ==
    LET total_entropy == entropy(dataset)
        left_entropy  == entropy(select(dataset, left_indexes))
    IN [kind  |-> "gain",
        total |-> total_entropy,
        n     |-> Len(dataset),
        wnum  |-> left_entropy.num,
        wden  |-> left_entropy.den]

\* EntropySelectionMeasure::apply.  information_gain =
\* total_entropy - (|l|/n * left_entropy + |r|/n * right_entropy) with
\* n = dataset.len(); carried as 2^(n * weighted_average) = wnum / wden
\* together with total_entropy and n.
SelectionMeasureApply(dataset, left_indexes, right_indexes) ==
    LET total_entropy == entropy(dataset)
        left_entropy  == entropy(select(dataset, left_indexes))
        right_entropy == entropy(select(dataset, right_indexes))
    IN [kind  |-> "gain",
        total |-> total_entropy,
        n     |-> Len(dataset),
        wnum  |-> left_entropy.num * right_entropy.num,
        wden  |-> left_entropy.den * right_entropy.den]

\* the initial `best_score = -1.`
Sentinel == [kind |-> "sentinel"]

\* greatest common divisor, used to cancel common factors before a cross
\* multiplication so that the products stay small
RECURSIVE GCD(_, _)
GCD(a, b) == IF b = 0 THEN a ELSE GCD(b, a % b)

\* `a > b` with an initial best_score of 0. in place of -1.
ScoreGreaterZeroSentinel(a, b) ==
    IF b.kind = "sentinel"
    THEN a.total.num * a.wden > a.total.den * a.wnum
    ELSE a.wnum * b.wden < b.wnum * a.wden

\* `a > b` on f64 scores: a is an information gain of the current node,
\* b is the running best (the sentinel -1 or an earlier gain of the same
\* node, hence with the same total entropy and n).
\*   gain > -1     <=>  2^(n*total) * 2^n > 2^(n*weighted_average)
\*   gain_a > gain_b  <=>  weighted_average_a < weighted_average_b
ScoreGreater(a, b) ==
    IF b.kind = "sentinel"
    THEN LET g == GCD(a.total.num, a.wnum)
             h == GCD(a.total.den, a.wden)
         IN (a.total.num \div g) * Pow(2, a.n) * (a.wden \div h)
                > (a.total.den \div h) * (a.wnum \div g)
    ELSE LET g == GCD(a.wnum, b.wnum)
             h == GCD(a.wden, b.wden)
         IN (a.wnum \div g) * (b.wden \div h) < (b.wnum \div g) * (a.wden \div h)

ScoreEqual(a, b) ==
    LET g == GCD(a.wnum, b.wnum)
        h == GCD(a.wden, b.wden)
    IN (a.wnum \div g) * (b.wden \div h) = (b.wnum \div g) * (a.wden \div h)

\* ------------------------------------------- greedy_feature_selector.rs
\* split_by_value with `<=` in place of `<`
split_by_value_le(x, value) ==
    LET indexes == [i \in 1..Len(x) |-> i - 1]
    IN [left  |-> SelectSeq(indexes, LAMBDA i : x[i + 1] <= value),
        right |-> SelectSeq(indexes, LAMBDA i : ~(x[i + 1] <= value))]

\* split_by_value with the two pushes exchanged
split_by_value_swapped(x, value) ==
    LET indexes == [i \in 1..Len(x) |-> i - 1]
    IN [left  |-> SelectSeq(indexes, LAMBDA i : ~(x[i + 1] < value)),
        right |-> SelectSeq(indexes, LAMBDA i : x[i + 1] < value)]

\* GreedyFeatureSelector::split_by_value: rows are visited in increasing
\* index order, so both vectors are increasing.
split_by_value(x, value) ==
    LET indexes == [i \in 1..Len(x) |-> i - 1]
    IN [left  |-> SelectSeq(indexes, LAMBDA i : x[i + 1] < value),
        right |-> SelectSeq(indexes, LAMBDA i : ~(x[i + 1] < value))]

\* the state of the search before the loops
ApplyInit ==
    [best_score         |-> Sentinel,
     best_split_value   |-> 0,
     best_split_column  |-> 0,
     best_left_indexes  |-> <<>>,
     best_right_indexes |-> <<>>]

\* One evaluated candidate: column_index outer, row_index inner.
Candidate(x, y, column_index, row_index) ==
    LET columns     == column(x, column_index)
        split_value == columns[row_index + 1]
        split       == split_by_value(columns, split_value)
    IN [split_value  |-> split_value,
        column_index |-> column_index,
        left_indexes  |-> split.left,
        right_indexes |-> split.right,
        score |-> SelectionMeasureApply(y, split.left, split.right)]

\* the body of the inner loop with `>=` in place of `>`
ApplyStepGe(best, c) ==
    IF \/ best.best_score.kind = "sentinel"
       \/ ~ScoreGreater(best.best_score, c.score)
    THEN [best_score         |-> c.score,
          best_split_value   |-> c.split_value,
          best_split_column  |-> c.column_index,
          best_left_indexes  |-> c.left_indexes,
          best_right_indexes |-> c.right_indexes]
    ELSE best

\* the body of the inner loop with `<` in place of `>`
ApplyStepLess(best, c) ==
    IF best.best_score.kind # "sentinel" /\ ScoreGreater(best.best_score, c.score)
    THEN [best_score         |-> c.score,
          best_split_value   |-> c.split_value,
          best_split_column  |-> c.column_index,
          best_left_indexes  |-> c.left_indexes,
          best_right_indexes |-> c.right_indexes]
    ELSE best

\* the body of the inner loop: replace the best only on a strictly greater
\* score
ApplyStep(best, c) ==
    IF ScoreGreater(c.score, best.best_score)
    THEN [best_score         |-> c.score,
          best_split_value   |-> c.split_value,
          best_split_column  |-> c.column_index,
          best_left_indexes  |-> c.left_indexes,
          best_right_indexes |-> c.right_indexes]
    ELSE best

\* the two nested loops, candidate k = column_index * rows + row_index
RECURSIVE ApplyLoop(_, _, _, _)
ApplyLoop(x, y, k, best) ==
    IF k >= x.ncols * nrows(x) THEN best
    ELSE ApplyLoop(x, y, k + 1,
                   ApplyStep(best, Candidate(x, y, k \div nrows(x), k % nrows(x))))

\* GreedyFeatureSelector::apply panics when the selection measure selects
\* labels by a row index that is not an index of y: the two sides of a
\* candidate hold every row index between them, so the first candidate
\* already selects the largest one.
ApplyPanics(x, y) ==
    /\ x.ncols * nrows(x) > 0
    /\ ~SelectInBounds(Len(y), [i \in 1..nrows(x) |-> i - 1])

apply(x, y) ==
    LET best == ApplyLoop(x, y, 0, ApplyInit)
    IN [left_indexes  |-> best.best_left_indexes,
        right_indexes |-> best.best_right_indexes,
        threshold     |-> best.best_split_value,
        feature       |-> best.best_split_column]

\* ------------------------------------------------------------ tree/lib.rs
\* enum DecisionTreeNode
Leaf(probability) == [kind |-> "Leaf", probability |-> probability]

\* new_interior with the two children exchanged
new_interior_swapped(feature, threshold, left, right) ==
    [kind |-> "Interior", feature |-> feature, threshold |-> threshold,
     left |-> right, right |-> left]

new_interior(feature, threshold, left, right) ==
    [kind |-> "Interior", feature |-> feature, threshold |-> threshold,
     left |-> left, right |-> right]

\* no node (an empty return register, a child not built yet)
NoNode == [kind |-> "None"]

\* new_leaf_node with min_by_key in place of max_by_key
MinorityKeys(y) ==
    LET distribution == histogram(y)
    IN { key \in DOMAIN distribution :
           \A other \in DOMAIN distribution :
               distribution[key] <= distribution[other] }

\* DecisionTreeNode::new_leaf_node: max_by_key over the iteration of a
\* HashMap, whose order is unspecified: any key of maximal count can be
\* the result.  On an empty histogram max_by_key is None and unwrap panics.
MajorityKeys(y) ==
    LET distribution == histogram(y)
    IN { key \in DOMAIN distribution :
           \A other \in DOMAIN distribution :
               distribution[other] <= distribution[key] }

\* DecisionTreeNode::predict with `<=` in place of `<`
RECURSIVE NodePredictLe(_, _)
NodePredictLe(node, row) ==
    IF node.kind = "Interior"
    THEN IF row[node.feature + 1] <= node.threshold
         THEN NodePredictLe(node.left, row)
         ELSE NodePredictLe(node.right, row)
    ELSE node.probability

\* DecisionTreeNode::predict with the two descents exchanged
RECURSIVE NodePredictExchanged(_, _)
NodePredictExchanged(node, row) ==
    IF node.kind = "Interior"
    THEN IF row[node.feature + 1] < node.threshold
         THEN NodePredictExchanged(node.right, row)
         ELSE NodePredictExchanged(node.left, row)
    ELSE node.probability

\* DecisionTreeNode::predict
RECURSIVE NodePredict(_, _)
NodePredict(node, row) ==
    IF node.kind = "Interior"
    THEN IF row[node.feature + 1] < node.threshold
         THEN NodePredict(node.left, row)
         ELSE NodePredict(node.right, row)
    ELSE node.probability

\* DecisionTreeModel::predict: one result per row, in row order
ModelPredict(root, m) == [row_index \in 1..nrows(m) |-> NodePredict(root, m.rows[row_index])]

VARIABLES
    max_depth,   \* DecisionTreeClassifier.max_depth
    min_size,    \* DecisionTreeClassifier.min_size
    x,           \* the feature matrix passed to fit
    y,           \* the label vector passed to fit
    status,      \* "idle", "running", "panicked", "fitted", "predicted"
    stack,       \* the active build_tree invocations, the innermost last
    ret,         \* the node returned by the build_tree that returned last
    tree,        \* DecisionTreeModel.tree
    px,          \* the matrix passed to predict
    results,     \* the vector returned by predict
    history,     \* what the calls of fit (trees) or of predict (vectors)
                 \* on this classifier or model returned so far, in order
    call_in,     \* the arguments of a direct call of a function of the
                 \* library (the selection measure, entropy)
    call_out,    \* what that call returned
    pipeline,    \* the Pipeline that was built: its source, its stages and
                 \* the PipelineConfig of the stages
    threads,     \* thread k: 0 runs the source, 1..N the stages, N + 1 is
                 \* the caller iterating the final Pipeline
    senders,     \* Sender c (owned by thread c - 1): buffer, the batch its
                 \* SyncSender is blocked sending, whether it still exists
    channels,    \* mpsc channel c: the batches sent and not yet received
    receivers,   \* the iterator thread k reads: the rest of the source
                 \* (k = 0) or the buffer of ReceiverIntoIterator k
    produced     \* the items the caller has collected

\* the state of a direct call of a function
callVars == <<call_in, call_out>>

\* the state of a Pipeline and its threads
pipelineVars == <<pipeline, threads, senders, channels, receivers, produced>>

\* the state outside the classifier and its model
nonTreeVars == <<callVars, pipelineVars>>

vars == <<max_depth, min_size, x, y, status, stack, ret, tree, px, results,
          history, nonTreeVars>>

\* no direct call was made
NoCall == [kind |-> "None"]

CallIdle == call_in = NoCall /\ call_out = NoCall

\* no Pipeline was built
PipelineIdle ==
    /\ pipeline = NoCall
    /\ threads = <<>>
    /\ senders = <<>>
    /\ channels = <<>>
    /\ receivers = <<>>
    /\ produced = <<>>

\* an invocation build_tree(fx, fy, depth) at its first statement
Frame(fx, fy, depth) ==
    [x |-> fx, y |-> fy, depth |-> depth, pc |-> "start",
     left_indexes |-> <<>>, right_indexes |-> <<>>,
     threshold |-> 0, feature |-> 0, left |-> NoNode]

Top == stack[Len(stack)]
Pop == SubSeq(stack, 1, Len(stack) - 1)

\* the condition of the `if` of build_tree with `depth >= max_depth`
StopConditionGe(f) ==
    \/ Len(f.y) <= min_size
    \/ f.depth >= max_depth
    \/ EntropyIsZero(entropy(f.y))

\* the condition of the `if` of build_tree without the test of the depth
StopConditionNoDepth(f) ==
    \/ Len(f.y) <= min_size
    \/ EntropyIsZero(entropy(f.y))

\* the condition of the `if` of build_tree
StopCondition(f) ==
    \/ Len(f.y) <= min_size
    \/ f.depth > max_depth
    \/ EntropyIsZero(entropy(f.y))

Init ==
    /\ max_depth \in 0..MaxMaxDepth
    /\ min_size \in 1..MaxMinSize
    /\ x \in Matrices(MaxRows)
    /\ y \in LabelVectors
    /\ status = "idle"
    /\ stack = <<>>
    /\ ret = NoNode
    /\ tree = NoNode
    /\ px = [ncols |-> x.ncols, rows |-> <<>>]
    /\ results = <<>>
    /\ history = <<>>
    /\ CallIdle
    /\ PipelineIdle

\* fit: calls build_tree(x, y, 0)
Fit ==
    /\ status = "idle"
    /\ status' = "running"
    /\ stack' = <<Frame(x, y, 0)>>
    /\ UNCHANGED <<max_depth, min_size, x, y, ret, tree, px, results, history, nonTreeVars>>

\* build_tree, stopping branch on a non-empty label vector: returns a Leaf
BuildTreeLeaf ==
    /\ status = "running" /\ stack # <<>> /\ Top.pc = "start"
    /\ StopCondition(Top)
    /\ Len(Top.y) > 0
    /\ \E key \in MajorityKeys(Top.y) : ret' = Leaf(key)
    /\ stack' = Pop
    /\ UNCHANGED <<max_depth, min_size, x, y, status, tree, px, results, history, nonTreeVars>>

\* build_tree, stopping branch on an empty label vector: new_leaf_node
\* unwraps None and the thread panics
BuildTreeLeafPanic ==
    /\ status = "running" /\ stack # <<>> /\ Top.pc = "start"
    /\ StopCondition(Top)
    /\ Len(Top.y) = 0
    /\ status' = "panicked"
    /\ UNCHANGED <<max_depth, min_size, x, y, stack, ret, tree, px, results, history, nonTreeVars>>

\* build_tree, splitting branch: feature_selector.apply, then the recursive
\* call on the left rows
BuildTreeSplit ==
    /\ status = "running" /\ stack # <<>> /\ Top.pc = "start"
    /\ ~StopCondition(Top)
    /\ ~ApplyPanics(Top.x, Top.y)
    /\ \E r \in {apply(Top.x, Top.y)} :
          stack' = Pop \o
              << [Top EXCEPT !.pc = "left",
                             !.left_indexes = r.left_indexes,
                             !.right_indexes = r.right_indexes,
                             !.threshold = r.threshold,
                             !.feature = r.feature],
                 Frame(selectRows(Top.x, r.left_indexes),
                       select(Top.y, r.left_indexes),
                       Top.depth + 1) >>
    /\ ret' = NoNode
    /\ UNCHANGED <<max_depth, min_size, x, y, status, tree, px, results, history, nonTreeVars>>

\* build_tree, splitting branch when the selection measure indexes y out
\* of bounds
BuildTreeSplitPanic ==
    /\ status = "running" /\ stack # <<>> /\ Top.pc = "start"
    /\ ~StopCondition(Top)
    /\ ApplyPanics(Top.x, Top.y)
    /\ status' = "panicked"
    /\ UNCHANGED <<max_depth, min_size, x, y, stack, ret, tree, px, results, history, nonTreeVars>>

\* build_tree after the left child returned: the recursive call on the
\* right rows
BuildTreeRight ==
    /\ status = "running" /\ stack # <<>> /\ Top.pc = "left"
    /\ ret.kind # "None"
    /\ LET f == [Top EXCEPT !.pc = "right", !.left = ret]
       IN stack' = Pop \o <<f, Frame(selectRows(Top.x, Top.right_indexes),
                                     select(Top.y, Top.right_indexes),
                                     Top.depth + 1)>>
    /\ ret' = NoNode
    /\ UNCHANGED <<max_depth, min_size, x, y, status, tree, px, results, history, nonTreeVars>>

\* build_tree after the right child returned: returns the Interior node
BuildTreeInterior ==
    /\ status = "running" /\ stack # <<>> /\ Top.pc = "right"
    /\ ret.kind # "None"
    /\ ret' = new_interior(Top.feature, Top.threshold, Top.left, ret)
    /\ stack' = Pop
    /\ UNCHANGED <<max_depth, min_size, x, y, status, tree, px, results, history, nonTreeVars>>

\* fit returns the DecisionTreeModel wrapping the root that was built
FitReturn ==
    /\ status = "running" /\ stack = <<>>
    /\ ret.kind # "None"
    /\ tree' = ret
    /\ status' = "fitted"
    /\ history' = Append(history, ret)
    /\ UNCHANGED <<max_depth, min_size, x, y, stack, ret, px, results, nonTreeVars>>

Next ==
    \/ Fit
    \/ BuildTreeLeaf
    \/ BuildTreeLeafPanic
    \/ BuildTreeSplit
    \/ BuildTreeSplitPanic
    \/ BuildTreeRight
    \/ BuildTreeInterior
    \/ FitReturn

\* fit on every feature matrix and label vector within the bounds
Spec == Init /\ [][Next]_vars

\* ------------------------------------------------------ fit called again
\* a classifier and a training set of N >= 1 rows and N labels
InitRefit ==
    /\ Init
    /\ nrows(x) >= 1
    /\ nrows(x) = Len(y)

\* fit is called again on the same classifier with the same x and y (fit
\* takes &self and the views x and y: none of them changed)
FitAgain ==
    /\ status = "fitted"
    /\ Len(history) < MaxFitCalls
    /\ status' = "running"
    /\ stack' = <<Frame(x, y, 0)>>
    /\ ret' = NoNode
    /\ UNCHANGED <<max_depth, min_size, x, y, tree, px, results, history, nonTreeVars>>

\* the selection measure cannot index y out of bounds when x has as many
\* rows as y has labels, so BuildTreeSplitPanic has no part here
NextRefit ==
    \/ Fit
    \/ BuildTreeLeaf
    \/ BuildTreeLeafPanic
    \/ BuildTreeSplit
    \/ BuildTreeRight
    \/ BuildTreeInterior
    \/ FitReturn
    \/ FitAgain

SpecRefit == InitRefit /\ [][NextRefit]_vars

\* ------------------------------------------- fit and predict, end to end
\* the one-column feature matrix and the prediction input of the worked
\* example
ExampleX ==
    [ncols |-> 1,
     rows |-> << <<1>>, <<1>>, <<1>>, <<1>>, <<5>>, <<5>>, <<5>>, <<5>> >>]

\* the labels of the worked example
ExampleY == <<"A", "A", "A", "A", "B", "B", "B", "B">>

ExamplePx == [ncols |-> 1, rows |-> << <<1>>, <<5>> >>]

\* DecisionTreeClassifier(max_depth = 1, min_size = 1) is fitted on the
\* example matrix with every labelling of its rows, then the Model predicts
InitExample ==
    /\ max_depth = 1
    /\ min_size = 1
    /\ x = ExampleX
    /\ y \in [1..nrows(ExampleX) -> Labels]
    /\ status = "idle"
    /\ stack = <<>>
    /\ ret = NoNode
    /\ tree = NoNode
    /\ px = ExamplePx
    /\ results = <<>>
    /\ history = <<>>
    /\ CallIdle
    /\ PipelineIdle

\* DecisionTreeModel::predict on the Model that fit returned
PredictFitted ==
    /\ status = "fitted"
    /\ results' = ModelPredict(tree, px)
    /\ status' = "predicted"
    /\ UNCHANGED <<max_depth, min_size, x, y, stack, ret, tree, px, history, nonTreeVars>>

\* x has as many rows as y has labels: BuildTreeSplitPanic has no part here
NextExample ==
    \/ Fit
    \/ BuildTreeLeaf
    \/ BuildTreeLeafPanic
    \/ BuildTreeSplit
    \/ BuildTreeRight
    \/ BuildTreeInterior
    \/ FitReturn
    \/ PredictFitted

SpecExample == InitExample /\ [][NextExample]_vars

\* ------------------------------------ the selection measure as a function
\* the label type of a direct call of the measure: three classes
MeasureLabels == {"A", "B", "C"}

\* the label vectors: all the short ones and the one of the worked example
Datasets ==
    UNION { [1..n -> MeasureLabels] : n \in 0..MaxDatasetLen } \cup {ExampleY}

\* the two index slices of a candidate split of n rows: the rows of a
\* subset in increasing order, and the other rows in increasing order
Partitions(n) ==
    { [left  |-> SelectSeq(AllIndexes(n), LAMBDA i : i \in side),
       right |-> SelectSeq(AllIndexes(n), LAMBDA i : i \notin side)]
      : side \in SUBSET (0..(n - 1)) }

InitMeasure ==
    /\ max_depth = 0
    /\ min_size = 1
    /\ x = [ncols |-> 1, rows |-> <<>>]
    /\ y = <<>>
    /\ status = "idle"
    /\ stack = <<>>
    /\ ret = NoNode
    /\ tree = NoNode
    /\ px = [ncols |-> 1, rows |-> <<>>]
    /\ results = <<>>
    /\ history = <<>>
    /\ \E dataset \in Datasets : \E split \in Partitions(Len(dataset)) :
          call_in = [dataset       |-> dataset,
                        left_indexes  |-> split.left,
                        right_indexes |-> split.right]
    /\ call_out = NoCall
    /\ PipelineIdle

treeVars == <<max_depth, min_size, x, y, status, stack, ret, tree, px, results>>

\* entropy(dataset)
Entropy ==
    /\ call_out = NoCall
    /\ call_out' = [kind |-> "entropy", value |-> entropy(call_in.dataset)]
    /\ UNCHANGED <<treeVars, history, call_in, pipelineVars>>

\* EntropySelectionMeasure::apply(dataset, left_indexes, right_indexes):
\* its locals and the information gain it returns
MeasureApply ==
    /\ call_out = NoCall
    /\ LET dataset       == call_in.dataset
           left_indexes  == call_in.left_indexes
           right_indexes == call_in.right_indexes
       IN call_out' =
             [kind          |-> "gain",
              total_entropy |-> entropy(dataset),
              left_entropy  |-> entropy(select(dataset, left_indexes)),
              right_entropy |-> entropy(select(dataset, right_indexes)),
              left_weight   |-> [num |-> Len(left_indexes), den |-> Len(dataset)],
              right_weight  |-> [num |-> Len(right_indexes), den |-> Len(dataset)],
              information_gain |->
                  SelectionMeasureApply(dataset, left_indexes, right_indexes)]
    /\ UNCHANGED <<treeVars, history, call_in, pipelineVars>>

NextMeasure == Entropy \/ MeasureApply

SpecMeasure == InitMeasure /\ [][NextMeasure]_vars

\* ------------------------------------------------- predict as a function
\* the trees of at most h levels of Interior nodes over `ncols` columns
RECURSIVE Trees(_, _)
Trees(h, ncols) ==
    LET leaves == { Leaf(l) : l \in Labels }
    IN IF h = 0 THEN leaves
       ELSE LET sub == Trees(h - 1, ncols)
            IN leaves \cup
               { new_interior(f, t, l, r) :
                   <<f, t, l, r>> \in (0..(ncols - 1)) \X Values \X sub \X sub }

\* a DecisionTreeModel and a matrix to predict, of equal column count
InitPredict ==
    /\ max_depth = 0
    /\ min_size = 1
    /\ x = [ncols |-> 1, rows |-> <<>>]
    /\ y = <<>>
    /\ stack = <<>>
    /\ ret = NoNode
    /\ status = "fitted"
    /\ px \in Matrices(MaxPredictRows)
    /\ tree \in Trees(MaxHeight, px.ncols)
    /\ results = <<>>
    /\ history = <<>>
    /\ CallIdle
    /\ PipelineIdle

\* DecisionTreeModel::predict with a receiver that it consumes: the Model
\* is left holding the subtree of its root's left child
PredictConsuming ==
    /\ status \in {"fitted", "predicted"}
    /\ Len(history) < MaxPredictCalls
    /\ results' = ModelPredict(tree, px)
    /\ tree' = IF tree.kind = "Interior" THEN tree.left ELSE tree
    /\ status' = "predicted"
    /\ history' = Append(history, results')
    /\ UNCHANGED <<max_depth, min_size, x, y, stack, ret, px, nonTreeVars>>

\* DecisionTreeModel::predict(&self, x): may be called any number of times
\* on a Model
Predict ==
    /\ status \in {"fitted", "predicted"}
    /\ Len(history) < MaxPredictCalls
    /\ results' = ModelPredict(tree, px)
    /\ status' = "predicted"
    /\ history' = Append(history, results')
    /\ UNCHANGED <<max_depth, min_size, x, y, stack, ret, tree, px, nonTreeVars>>

NextPredict == Predict

SpecPredict == InitPredict /\ [][NextPredict]_vars

\* --------------------------------------------------- pipeline_example.rs
\* PipelineConfig::default()
DefaultConfig == [buff_size |-> 10, batch_size |-> 10]

\* the batch_size and buff_size given to configure; buff_size 0 makes
\* mpsc::sync_channel a rendezvous channel
BatchSizes == {1, 2}
BuffSizes == {0, 1}

\* the single-threaded stages: map(|i| i * 2), filter(|i| i % 2 == 0) and
\* pipe with the closure of tests::simple_closure
StageKinds == {"map", "filter", "pipe"}

\* the numbers of stages chained after Pipeline::from
StageCounts == {0, 1, 2}

NStages == Len(pipeline.stages)

\* the thread that iterates the final Pipeline
Caller == NStages + 1

\* Pipeline::new makes the channel of the source with the default config;
\* pipe makes the channel of a stage with the config of the Pipeline it
\* extends
ChannelConfig(c) == IF c = 1 THEN DefaultConfig ELSE pipeline.config

\* what the closure of a stage sends for one entry
StageOutput(kind, entry) ==
    CASE kind = "map"    -> <<entry * 2>>
      [] kind = "filter" -> IF entry % 2 = 0 THEN <<entry>> ELSE <<>>
      [] kind = "pipe"   -> LET item == entry + 1
                            IN IF item % 2 = 0 THEN <<item>> ELSE <<>>

\* Sender::flush without the replace: the buffer is transmitted and kept
SenderFlushKeep(sender) ==
    [sender |-> sender, batch |-> sender.buffer]

\* Sender::flush: the buffer is replaced by an empty one; the old buffer is
\* the batch to transmit (transmitted only if it is not empty)
SenderFlush(sender) ==
    [sender |-> [sender EXCEPT !.buffer = <<>>], batch |-> sender.buffer]

\* Sender::send: push_back, then flush when the buffer has batch_size items
SenderSend(sender, out, config) ==
    LET pushed == [sender EXCEPT !.buffer = Append(sender.buffer, out)]
    IN IF Len(pushed.buffer) >= config.batch_size
       THEN SenderFlush(pushed)
       ELSE [sender |-> pushed, batch |-> <<>>]

\* ReceiverIntoIterator::next with pop_back in place of pop_front
IterPopBack(buffer) ==
    [item   |-> buffer[Len(buffer)],
     buffer |-> SubSeq(buffer, 1, Len(buffer) - 1)]

\* ReceiverIntoIterator::next on a buffer that is not empty: pop_front
IterPop(buffer) ==
    [item |-> Head(buffer), buffer |-> Tail(buffer)]

\* SyncSender::send does not block: the channel has room for a batch
Room(c) == Len(channels[c]) < ChannelConfig(c).buff_size

\* the classifier is not part of a pipeline
TreeIdle ==
    /\ max_depth = 0
    /\ min_size = 1
    /\ x = [ncols |-> 1, rows |-> <<>>]
    /\ y = <<>>
    /\ status = "idle"
    /\ stack = <<>>
    /\ ret = NoNode
    /\ tree = NoNode
    /\ px = [ncols |-> 1, rows |-> <<>>]
    /\ results = <<>>
    /\ history = <<>>

\* Pipeline::from(1..=n).configure(config) followed by a chain of stages;
\* every thread is spawned and at the head of its loop
InitPipeline ==
    /\ TreeIdle
    /\ CallIdle
    /\ \E n \in 0..MaxItems : \E count \in StageCounts :
       \E stages \in [1..count -> StageKinds] :
       \E batch_size \in BatchSizes : \E buff_size \in BuffSizes :
          /\ pipeline = [source |-> [i \in 1..n |-> i],
                         stages |-> stages,
                         config |-> [buff_size |-> buff_size,
                                     batch_size |-> batch_size]]
          /\ threads = [k \in 0..(count + 1) |-> [pc |-> "loop", item |-> 0]]
          /\ senders = [c \in 1..(count + 1) |->
                           [buffer |-> <<>>, pending |-> <<>>, alive |-> TRUE]]
          /\ channels = [c \in 1..(count + 1) |-> <<>>]
          /\ receivers = [k \in 0..(count + 1) |->
                             IF k = 0 THEN [i \in 1..n |-> i] ELSE <<>>]
    /\ produced = <<>>

\* Iterator::next of thread k when its buffer (or the rest of the source)
\* is not empty
RecvBuffered ==
    \E k \in DOMAIN threads :
       /\ threads[k].pc = "loop"
       /\ receivers[k] # <<>>
       /\ \E r \in {IterPop(receivers[k])} :
             /\ receivers' = [receivers EXCEPT ![k] = r.buffer]
             /\ threads' = [threads EXCEPT ![k] = [pc |-> "have", item |-> r.item]]
       /\ UNCHANGED <<pipeline, senders, channels, produced>>
       /\ UNCHANGED <<treeVars, history, callVars>>

\* ReceiverIntoIterator::next on an empty buffer: the next batch of the
\* channel becomes the buffer
RecvBatch ==
    \E k \in DOMAIN threads :
       /\ k >= 1
       /\ threads[k].pc = "loop"
       /\ receivers[k] = <<>>
       /\ channels[k] # <<>>
       /\ \E r \in {IterPop(Head(channels[k]))} :
             /\ receivers' = [receivers EXCEPT ![k] = r.buffer]
             /\ threads' = [threads EXCEPT ![k] = [pc |-> "have", item |-> r.item]]
       /\ channels' = [channels EXCEPT ![k] = Tail(channels[k])]
       /\ UNCHANGED <<pipeline, senders, produced>>
       /\ UNCHANGED <<treeVars, history, callVars>>

\* the same on a rendezvous channel (buff_size = 0): the batch passes from
\* the blocked SyncSender::send to the receiver, and the sender's thread
\* goes on (or ends, when it was dropping the Sender)
RecvRendezvous ==
    \E k \in DOMAIN threads :
       /\ k >= 1
       /\ threads[k].pc = "loop"
       /\ receivers[k] = <<>>
       /\ channels[k] = <<>>
       /\ ChannelConfig(k).buff_size = 0
       /\ senders[k].pending # <<>>
       /\ \E r \in {IterPop(senders[k].pending)} :
             /\ receivers' = [receivers EXCEPT ![k] = r.buffer]
             /\ threads' =
                  [threads EXCEPT
                     ![k] = [pc |-> "have", item |-> r.item],
                     ![k - 1] = [pc |-> IF threads[k - 1].pc = "send"
                                         THEN "loop" ELSE "done",
                                 item |-> 0]]
       /\ senders' = [senders EXCEPT
                        ![k] = [buffer |-> senders[k].buffer,
                                pending |-> <<>>,
                                alive |-> threads[k - 1].pc = "send"]]
       /\ UNCHANGED <<pipeline, channels, produced>>
       /\ UNCHANGED <<treeVars, history, callVars>>

\* Iterator::next returns None: the source is exhausted, or the channel is
\* empty and its Sender was dropped.  The loop of the thread ends; the
\* caller's iteration ends.
RecvNone ==
    \E k \in DOMAIN threads :
       /\ threads[k].pc = "loop"
       /\ receivers[k] = <<>>
       /\ k >= 1 => /\ channels[k] = <<>>
                    /\ senders[k].pending = <<>>
                    /\ ~senders[k].alive
       /\ threads' = [threads EXCEPT
                        ![k] = [pc |-> IF k = Caller THEN "ended" ELSE "drop",
                                item |-> 0]]
       /\ UNCHANGED <<pipeline, senders, channels, receivers, produced>>
       /\ UNCHANGED <<treeVars, history, callVars>>

\* the body of the loop of the source thread (tx.send(item)) or of a stage
\* (the closure of map, filter or pipe): at most one Sender::send, whose
\* flush transmits a batch or blocks in SyncSender::send
Process ==
    \E k \in DOMAIN threads :
       /\ k <= NStages
       /\ threads[k].pc = "have"
       /\ \E out \in {IF k = 0 THEN <<threads[k].item>>
                      ELSE StageOutput(pipeline.stages[k], threads[k].item)} :
          IF out = <<>>
          THEN /\ threads' = [threads EXCEPT ![k] = [pc |-> "loop", item |-> 0]]
               /\ UNCHANGED <<senders, channels>>
          ELSE \E r \in {SenderSend(senders[k + 1], out[1], ChannelConfig(k + 1))} :
                 IF r.batch = <<>> \/ Room(k + 1)
                 THEN /\ senders' = [senders EXCEPT ![k + 1] = r.sender]
                      /\ channels' =
                           [channels EXCEPT ![k + 1] =
                               IF r.batch = <<>> THEN @ ELSE Append(@, r.batch)]
                      /\ threads' = [threads EXCEPT ![k] = [pc |-> "loop", item |-> 0]]
                 ELSE /\ senders' = [senders EXCEPT ![k + 1] =
                                        [r.sender EXCEPT !.pending = r.batch]]
                      /\ threads' = [threads EXCEPT ![k] = [pc |-> "send", item |-> 0]]
                      /\ UNCHANGED channels
       /\ UNCHANGED <<pipeline, receivers, produced>>
       /\ UNCHANGED <<treeVars, history, callVars>>

\* the caller's loop body: collect the item
Collect ==
    /\ pipeline # NoCall
    /\ threads[Caller].pc = "have"
    /\ produced' = Append(produced, threads[Caller].item)
    /\ threads' = [threads EXCEPT ![Caller] = [pc |-> "loop", item |-> 0]]
    /\ UNCHANGED <<pipeline, senders, channels, receivers>>
    /\ UNCHANGED <<treeVars, history, callVars>>

\* the closure of a thread returns and its Sender is dropped: Drop flushes
\* what is left in the buffer (which may block), then the SyncSender goes
DropSender ==
    \E k \in DOMAIN threads :
       /\ k <= NStages
       /\ threads[k].pc = "drop"
       /\ \E r \in {SenderFlush(senders[k + 1])} :
            IF r.batch = <<>> \/ Room(k + 1)
            THEN /\ senders' = [senders EXCEPT ![k + 1] =
                                   [r.sender EXCEPT !.alive = FALSE]]
                 /\ channels' =
                      [channels EXCEPT ![k + 1] =
                          IF r.batch = <<>> THEN @ ELSE Append(@, r.batch)]
                 /\ threads' = [threads EXCEPT ![k] = [pc |-> "done", item |-> 0]]
            ELSE /\ senders' = [senders EXCEPT ![k + 1] =
                                   [r.sender EXCEPT !.pending = r.batch]]
                 /\ threads' = [threads EXCEPT ![k] = [pc |-> "dropsend", item |-> 0]]
                 /\ UNCHANGED channels
       /\ UNCHANGED <<pipeline, receivers, produced>>
       /\ UNCHANGED <<treeVars, history, callVars>>

\* a blocked SyncSender::send returns: the channel has room again
SendComplete ==
    \E k \in DOMAIN threads :
       /\ k <= NStages
       /\ threads[k].pc \in {"send", "dropsend"}
       /\ senders[k + 1].pending # <<>>
       /\ Room(k + 1)
       /\ channels' = [channels EXCEPT ![k + 1] = Append(@, senders[k + 1].pending)]
       /\ senders' = [senders EXCEPT
                        ![k + 1] = [buffer |-> senders[k + 1].buffer,
                                    pending |-> <<>>,
                                    alive |-> threads[k].pc = "send"]]
       /\ threads' = [threads EXCEPT
                        ![k] = [pc |-> IF threads[k].pc = "send"
                                       THEN "loop" ELSE "done",
                                item |-> 0]]
       /\ UNCHANGED <<pipeline, receivers, produced>>
       /\ UNCHANGED <<treeVars, history, callVars>>

NextPipeline ==
    \/ RecvBuffered
    \/ RecvBatch
    \/ RecvRendezvous
    \/ RecvNone
    \/ Process
    \/ Collect
    \/ DropSender
    \/ SendComplete

SpecPipeline == InitPipeline /\ [][NextPipeline]_vars

\* ------------------- pipeline_example.rs: ppipe, Multiplex, reduce, distribute
\* The same variables carry a pipeline with one stage of several threads:
\*   thread 0        the thread of Pipeline::from, sending the source
\*   thread 1        the feeder of ppipe, Multiplex::process, the closure of
\*                   distribute, or the closure of reduce
\*   threads 2..W+1  the workers (none for reduce)
\*   the last thread the caller, iterating the final Pipeline
\* senders is indexed by <<thread, channel>>: a Sender (or clone) owned by
\* the thread, transmitting on the channel.

\* the keys of the (key, value) entries given to reduce and distribute
Keys == {"a", "b"}

\* the numbers of workers of ppipe and distribute
WorkerCounts == {1, 2}

StageKindsParallel == {"ppipe", "multiplex", "reduce", "distribute"}

NWorkers == IF pipeline.kind = "reduce" THEN 0 ELSE pipeline.workers

WorkerThreads == 2..(NWorkers + 1)

CallerThread == NWorkers + 2

\* the channel the final Pipeline receives from: master_rx of ppipe, the
\* pair made by pipe for then, reduce and distribute
OutChannel ==
    CASE pipeline.kind \in {"ppipe", "multiplex"} -> 3
      [] pipeline.kind = "distribute" -> NWorkers + 2
      [] pipeline.kind = "reduce" -> 2

\* the channel a thread receives from: the workers of ppipe and Multiplex
\* share channel 2 behind a LockedReceiver, a worker of distribute has the
\* entry channel made for it
InChannel(t) ==
    IF t = CallerThread THEN OutChannel
    ELSE IF t = 1 THEN 1
    ELSE IF pipeline.kind = "distribute" THEN t ELSE 2

\* what a thread runs
Role(t) ==
    IF t = 0 THEN "source"
    ELSE IF t = CallerThread THEN "caller"
    ELSE IF t = 1
         THEN CASE pipeline.kind \in {"ppipe", "multiplex"} -> "feeder"
                [] pipeline.kind = "distribute" -> "distributor"
                [] pipeline.kind = "reduce" -> "reducer"
         ELSE IF pipeline.kind = "distribute" THEN "reducer" ELSE "mapper"

\* the Senders that exist once the stage is built.  ppipe drops master_tx
\* itself when it returns, so only the clones of the workers remain;
\* Multiplex::process and the closure of distribute keep the tx they were
\* given until they return.
SenderKeys(kind, workers) ==
    {<<0, 1>>} \cup
    CASE kind = "ppipe" ->
            {<<1, 2>>} \cup {<<w, 3>> : w \in 2..(workers + 1)}
      [] kind = "multiplex" ->
            {<<1, 2>>, <<1, 3>>} \cup {<<w, 3>> : w \in 2..(workers + 1)}
      [] kind = "distribute" ->
            {<<1, w>> : w \in 2..(workers + 1)} \cup {<<1, workers + 2>>}
            \cup {<<w, workers + 2>> : w \in 2..(workers + 1)}
      [] kind = "reduce" -> {<<1, 2>>}

Owned(t) == {s \in DOMAIN senders : s[1] = t}

\* Sender::pair(config): Pipeline::new uses the default config, Multiplex
\* uses the default config for its shared channel, everything else the
\* config of the Pipeline
ConfigOf(c) ==
    IF c = 1 \/ (pipeline.kind = "multiplex" /\ c = 2)
    THEN DefaultConfig
    ELSE pipeline.config

RoomOn(c) == Len(channels[c]) < ConfigOf(c).buff_size

\* some Sender of the channel was dropped
HungUpAny(c) == \E s \in DOMAIN senders : s[2] = c /\ ~senders[s].alive

\* every Sender of the channel was dropped
HungUp(c) == \A s \in DOMAIN senders : s[2] = c => ~senders[s].alive

\* the mutex of the LockedReceiver is free
LockFree == \A t \in DOMAIN threads : threads[t].pc # "locked"

\* a choice of the worker that depends on what the distributor still has
\* buffered instead of on the key
WhichByLoad(key) == 2 + (Len(receivers[1]) % NWorkers)

\* (hasher.finish() as usize) % workers, as the worker thread it selects:
\* DefaultHasher::new() has fixed keys, so it is a function of the key
Which(key) == pipeline.which[key]

\* by_key.entry(key).or_insert_with(Vec::new).push(value)
HashMapPush(hm, key, value) ==
    [k \in DOMAIN hm \cup {key} |->
        IF k \in DOMAIN hm
        THEN IF k = key THEN Append(hm[k], value) ELSE hm[k]
        ELSE <<value>>]

HashMapRemove(hm, key) == [k \in DOMAIN hm \ {key} |-> hm[k]]

NewThread == [pc |-> "loop", item |-> 0, hm |-> <<>>, on |-> <<>>,
              cont |-> "", taken |-> <<>>]

\* the pc of a thread after it dropped Sender s: it goes on dropping what
\* it owns, and ends after the last one
AfterDrop(t, s) ==
    IF \E o \in Owned(t) \ {s} : senders[o].alive THEN "drop" ELSE "done"

\* locals are dropped before parameters: the entry Senders (or the shared
\* channel's Sender) before the tx the closure was given
NextDropped(t) ==
    CHOOSE s \in Owned(t) :
        /\ senders[s].alive
        /\ \A o \in Owned(t) : senders[o].alive => s[2] <= o[2]

\* Pipeline::from(source).configure(config) followed by one stage of
\* kind ppipe(workers, mapper), then(Multiplex of two Mappers),
\* reduce(func) or distribute(workers, reducer); all threads spawned
InitParallel ==
    /\ TreeIdle
    /\ CallIdle
    /\ \E n \in 0..MaxItems : \E kind \in StageKindsParallel :
       \E workers \in WorkerCounts : \E keys \in [1..n -> Keys] :
       \E which \in [Keys -> 2..(workers + 1)] :
       \E batch_size \in BatchSizes : \E buff_size \in BuffSizes :
          /\ kind = "multiplex" => workers = 2
          /\ kind = "reduce" => workers = 1
          /\ kind \in {"ppipe", "multiplex"} => \A i \in 1..n : keys[i] = "a"
          /\ kind # "distribute" => \A k \in Keys : which[k] = 2
          /\ pipeline = [kind |-> kind,
                         workers |-> workers,
                         source |-> IF kind \in {"ppipe", "multiplex"}
                                    THEN [i \in 1..n |-> i]
                                    ELSE [i \in 1..n |-> <<keys[i], i>>],
                         which |-> which,
                         config |-> [buff_size |-> buff_size,
                                     batch_size |-> batch_size]]
          /\ LET last == IF kind = "reduce" THEN 2 ELSE workers + 2
             IN /\ threads = [t \in 0..last |-> NewThread]
                /\ receivers = [t \in 0..last |->
                                   IF t = 0 THEN pipeline.source ELSE <<>>]
                /\ channels = [c \in 1..(IF kind = "reduce" THEN 2
                                         ELSE IF kind = "distribute"
                                              THEN workers + 2 ELSE 3) |-> <<>>]
          /\ senders = [s \in SenderKeys(kind, workers) |->
                           [buffer |-> <<>>, pending |-> <<>>, alive |-> TRUE]]
    /\ produced = <<>>

\* tx.send(out) by thread t on its Sender s, after which the thread is at
\* cont; base is the thread after the body of its loop.  The flush of a
\* full buffer transmits a batch or blocks in SyncSender::send.
SendOn(t, s, out, cont, base) ==
    \E r \in {SenderSend(senders[s], out, ConfigOf(s[2]))} :
       IF r.batch = <<>> \/ RoomOn(s[2])
       THEN /\ senders' = [senders EXCEPT ![s] = r.sender]
            /\ channels' = [channels EXCEPT ![s[2]] =
                               IF r.batch = <<>> THEN @ ELSE Append(@, r.batch)]
            /\ threads' = [threads EXCEPT ![t] = [base EXCEPT !.pc = cont]]
       ELSE /\ senders' = [senders EXCEPT ![s] =
                              [r.sender EXCEPT !.pending = r.batch]]
            /\ threads' = [threads EXCEPT ![t] =
                              [base EXCEPT !.pc = "send", !.on = s, !.cont = cont]]
            /\ UNCHANGED channels

\* the thread is in Iterator::next with an empty buffer, about to receive
\* from its channel (a worker of ppipe holds the mutex)
Receiving(t) ==
    /\ t >= 1
    /\ receivers[t] = <<>>
    /\ threads[t].pc = IF Role(t) = "mapper" THEN "locked" ELSE "loop"

\* next() with a buffer that is not empty: pop_front
NextBuffered ==
    \E t \in DOMAIN threads :
       /\ threads[t].pc = "loop"
       /\ receivers[t] # <<>>
       /\ \E r \in {IterPop(receivers[t])} :
             /\ receivers' = [receivers EXCEPT ![t] = r.buffer]
             /\ threads' = [threads EXCEPT
                              ![t] = [@ EXCEPT !.pc = "have", !.item = r.item,
                                               !.taken = IF Role(t) = "mapper"
                                                         THEN Append(@, r.item)
                                                         ELSE @]]
       /\ UNCHANGED <<pipeline, senders, channels, produced>>
       /\ UNCHANGED <<treeVars, history, callVars>>

\* LockedReceiver::next with an empty buffer: lock the mutex
Lock ==
    \E t \in DOMAIN threads :
       /\ Role(t) = "mapper"
       /\ threads[t].pc = "loop"
       /\ receivers[t] = <<>>
       /\ LockFree
       /\ threads' = [threads EXCEPT ![t] = [@ EXCEPT !.pc = "locked"]]
       /\ UNCHANGED <<pipeline, senders, channels, receivers, produced>>
       /\ UNCHANGED <<treeVars, history, callVars>>

\* NextBatch with a channel that keeps the batch it hands over, so that the
\* next receiver is handed the same batch again
NextBatchKept ==
    \E t \in DOMAIN threads :
       /\ Receiving(t)
       /\ channels[InChannel(t)] # <<>>
       /\ \E r \in {IterPop(Head(channels[InChannel(t)]))} :
             /\ receivers' = [receivers EXCEPT ![t] = r.buffer]
             /\ threads' = [threads EXCEPT
                              ![t] = [@ EXCEPT !.pc = "have", !.item = r.item,
                                               !.taken = IF Role(t) = "mapper"
                                                         THEN Append(@, r.item)
                                                         ELSE @]]
       /\ UNCHANGED <<pipeline, senders, channels, produced>>
       /\ UNCHANGED <<treeVars, history, callVars>>

\* the channel hands over its next batch (mpsc recv in the iterator, or
\* recv_buff under the mutex, which is released); the first item is popped
NextBatch ==
    \E t \in DOMAIN threads :
       /\ Receiving(t)
       /\ channels[InChannel(t)] # <<>>
       /\ \E r \in {IterPop(Head(channels[InChannel(t)]))} :
             /\ receivers' = [receivers EXCEPT ![t] = r.buffer]
             /\ threads' = [threads EXCEPT
                              ![t] = [@ EXCEPT !.pc = "have", !.item = r.item,
                                               !.taken = IF Role(t) = "mapper"
                                                         THEN Append(@, r.item)
                                                         ELSE @]]
       /\ channels' = [channels EXCEPT ![InChannel(t)] = Tail(@)]
       /\ UNCHANGED <<pipeline, senders, produced>>
       /\ UNCHANGED <<treeVars, history, callVars>>

\* the same on a rendezvous channel: the batch of one blocked
\* SyncSender::send passes to the receiver and that sender's thread goes on
NextRendezvous ==
    \E t \in DOMAIN threads : \E s \in DOMAIN senders :
       /\ Receiving(t)
       /\ s[2] = InChannel(t)
       /\ channels[InChannel(t)] = <<>>
       /\ ConfigOf(InChannel(t)).buff_size = 0
       /\ senders[s].pending # <<>>
       /\ \E r \in {IterPop(senders[s].pending)} :
             /\ receivers' = [receivers EXCEPT ![t] = r.buffer]
             /\ threads' =
                  [threads EXCEPT
                     ![t] = [@ EXCEPT !.pc = "have", !.item = r.item,
                                      !.taken = IF Role(t) = "mapper"
                                                THEN Append(@, r.item)
                                                ELSE @],
                     ![s[1]] = [@ EXCEPT !.pc = IF @ = "send"
                                                THEN threads[s[1]].cont
                                                ELSE AfterDrop(s[1], s),
                                         !.on = <<>>, !.cont = ""]]
       /\ senders' = [senders EXCEPT
                        ![s] = [buffer |-> senders[s].buffer,
                                pending |-> <<>>,
                                alive |-> threads[s[1]].pc = "send"]]
       /\ UNCHANGED <<pipeline, channels, produced>>
       /\ UNCHANGED <<treeVars, history, callVars>>

\* next() returns None: the source is exhausted, or the channel is empty
\* and every Sender of it was dropped.  The for loop ends: the caller's
\* iteration is over, a reducer starts calling func, any other thread
\* returns and drops its Senders.
NextNone ==
    \E t \in DOMAIN threads :
       /\ IF t = 0
          THEN threads[t].pc = "loop" /\ receivers[t] = <<>>
          ELSE /\ Receiving(t)
               /\ channels[InChannel(t)] = <<>>
               /\ HungUp(InChannel(t))
       /\ threads' = [threads EXCEPT
                        ![t] = [@ EXCEPT !.pc =
                                   CASE Role(t) = "caller" -> "ended"
                                     [] Role(t) = "reducer" -> "emit"
                                     [] OTHER -> "drop"]]
       /\ UNCHANGED <<pipeline, senders, channels, receivers, produced>>
       /\ UNCHANGED <<treeVars, history, callVars>>

\* the body of the for loop of a thread that sends: the source and the
\* feeder pass the item on, a mapper sends func(item) = item * 2, the
\* distributor sends the entry to txs[which]
Body ==
    \E t \in DOMAIN threads :
       /\ threads[t].pc = "have"
       /\ Role(t) \in {"source", "feeder", "mapper", "distributor"}
       /\ LET item == threads[t].item
              base == [threads[t] EXCEPT !.item = 0]
          IN CASE Role(t) = "source" -> SendOn(t, <<0, 1>>, item, "loop", base)
               [] Role(t) = "feeder" -> SendOn(t, <<1, 2>>, item, "loop", base)
               [] Role(t) = "mapper" ->
                     SendOn(t, <<t, OutChannel>>, item * 2, "loop", base)
               [] Role(t) = "distributor" ->
                     SendOn(t, <<1, Which(item[1])>>, item, "loop", base)
       /\ UNCHANGED <<pipeline, receivers, produced>>
       /\ UNCHANGED <<treeVars, history, callVars>>

\* the body of the first loop of a reducer: group the value under its key
Gather ==
    \E t \in DOMAIN threads :
       /\ threads[t].pc = "have"
       /\ Role(t) = "reducer"
       /\ threads' = [threads EXCEPT
                        ![t] = [@ EXCEPT !.pc = "loop", !.item = 0,
                                         !.hm = HashMapPush(@, threads[t].item[1],
                                                            threads[t].item[2])]]
       /\ UNCHANGED <<pipeline, senders, channels, receivers, produced>>
       /\ UNCHANGED <<treeVars, history, callVars>>

\* the second loop of a reducer: for (key, values) in the HashMap, in the
\* order the HashMap yields them, tx.send(func(key, values)); func is kept
\* as the pair of its arguments.  After the last key the closure returns.
Emit ==
    \E t \in DOMAIN threads :
       /\ threads[t].pc = "emit"
       /\ Role(t) = "reducer"
       /\ IF DOMAIN threads[t].hm = {}
          THEN /\ threads' = [threads EXCEPT ![t] = [@ EXCEPT !.pc = "drop"]]
               /\ UNCHANGED <<senders, channels>>
          ELSE \E key \in DOMAIN threads[t].hm :
                  SendOn(t, <<t, OutChannel>>, <<key, threads[t].hm[key]>>, "emit",
                         [threads[t] EXCEPT !.hm = HashMapRemove(@, key)])
       /\ UNCHANGED <<pipeline, receivers, produced>>
       /\ UNCHANGED <<treeVars, history, callVars>>

\* the caller's loop body: collect the item
CollectItem ==
    \E t \in DOMAIN threads :
       /\ pipeline # NoCall
       /\ Role(t) = "caller"
       /\ threads[t].pc = "have"
       /\ produced' = Append(produced, threads[t].item)
       /\ threads' = [threads EXCEPT ![t] = [@ EXCEPT !.pc = "loop", !.item = 0]]
       /\ UNCHANGED <<pipeline, senders, channels, receivers>>
       /\ UNCHANGED <<treeVars, history, callVars>>

\* the closure of a thread has returned and its next Sender is dropped:
\* Drop flushes what is left in the buffer (which may block)
DropNext ==
    \E t \in DOMAIN threads :
       /\ threads[t].pc = "drop"
       /\ \E s \in {NextDropped(t)} : \E r \in {SenderFlush(senders[s])} :
            IF r.batch = <<>> \/ RoomOn(s[2])
            THEN /\ senders' = [senders EXCEPT ![s] =
                                   [r.sender EXCEPT !.alive = FALSE]]
                 /\ channels' = [channels EXCEPT ![s[2]] =
                                    IF r.batch = <<>> THEN @ ELSE Append(@, r.batch)]
                 /\ threads' = [threads EXCEPT ![t] = [@ EXCEPT !.pc = AfterDrop(t, s)]]
            ELSE /\ senders' = [senders EXCEPT ![s] =
                                   [r.sender EXCEPT !.pending = r.batch]]
                 /\ threads' = [threads EXCEPT ![t] =
                                   [@ EXCEPT !.pc = "dropsend", !.on = s]]
                 /\ UNCHANGED channels
       /\ UNCHANGED <<pipeline, receivers, produced>>
       /\ UNCHANGED <<treeVars, history, callVars>>

\* a blocked SyncSender::send returns: the channel has room again
SendReturns ==
    \E t \in DOMAIN threads :
       /\ threads[t].pc \in {"send", "dropsend"}
       /\ \E s \in {threads[t].on} :
            /\ senders[s].pending # <<>>
            /\ RoomOn(s[2])
            /\ channels' = [channels EXCEPT ![s[2]] = Append(@, senders[s].pending)]
            /\ senders' = [senders EXCEPT
                             ![s] = [buffer |-> senders[s].buffer,
                                     pending |-> <<>>,
                                     alive |-> threads[t].pc = "send"]]
            /\ threads' = [threads EXCEPT
                             ![t] = [@ EXCEPT !.pc = IF @ = "send"
                                                     THEN threads[t].cont
                                                     ELSE AfterDrop(t, s),
                                              !.on = <<>>, !.cont = ""]]
       /\ UNCHANGED <<pipeline, receivers, produced>>
       /\ UNCHANGED <<treeVars, history, callVars>>

NextParallel ==
    \/ NextBuffered
    \/ Lock
    \/ NextBatch
    \/ NextRendezvous
    \/ NextNone
    \/ Body
    \/ Gather
    \/ Emit
    \/ CollectItem
    \/ DropNext
    \/ SendReturns

SpecParallel == InitParallel /\ [][NextParallel]_vars

\* ------------------------------------------ any pipeline, threads scheduled
\* the pipeline is a chain of single-threaded stages
IsChain == "stages" \in DOMAIN pipeline

InitStages == InitPipeline \/ InitParallel

NextStages ==
    \/ IsChain /\ NextPipeline
    \/ ~IsChain /\ NextParallel

\* every spawned thread and the caller are scheduled again and again: a
\* step that can be taken is eventually taken
SpecStages == InitStages /\ [][NextStages]_vars /\ WF_vars(NextStages)

\* ------------------------------------------------------------ splitting.rs
\* the ratio, an f32: NaN, or a number of quarters (0 and 4 are the ends of
\* the unit interval)
Ratios ==
    {[nan |-> FALSE, quarters |-> q] : q \in {0, 1, 3, 4}}
    \cup {[nan |-> TRUE, quarters |-> 0]}

\* the outcomes of rng.gen::<f32>(), in [0, 1), in quarters
Draws == 0..3

\* n1 < ratio; a comparison with NaN is false
DrawLess(n1, ratio) == ~ratio.nan /\ n1 < ratio.quarters

\* the outcomes of vec.shuffle on (0..n).collect()
Shuffles(n) ==
    {p \in [1..n -> 0..(n - 1)] : \A i, j \in 1..n : p[i] = p[j] => i = j}

\* the body of the loop with both pushes taken
PlaceBoth(left, right, idx, n1, ratio) ==
    [left |-> Append(left, idx), right |-> Append(right, idx)]

\* the body of the loop: if n1 < ratio { left.push(idx) } else { right.push(idx) }
Place(left, right, idx, n1, ratio) ==
    IF DrawLess(n1, ratio)
    THEN [left |-> Append(left, idx), right |-> right]
    ELSE [left |-> left, right |-> Append(right, idx)]

\* x has rows 1..n (one column, row i holds i); y has one label per row,
\* or one label less or more: the function checks nothing
InitSplit ==
    /\ TreeIdle
    /\ PipelineIdle
    /\ \E n \in 0..MaxSplitRows : \E m \in {n - 1, n, n + 1} : \E ratio \in Ratios :
          /\ m >= 0
          /\ \E labels \in [1..m -> Labels] :
               call_in = [x |-> [ncols |-> 1, rows |-> [i \in 1..n |-> <<i>>]],
                          y |-> labels,
                          ratio |-> ratio]
    /\ call_out = NoCall

\* let mut vec = (0..x.nrows()).collect(); vec.shuffle(..)
Shuffle ==
    /\ call_out = NoCall
    /\ \E vec \in Shuffles(nrows(call_in.x)) :
          call_out' = [kind |-> "loop", vec |-> vec, left |-> <<>>, right |-> <<>>]
    /\ UNCHANGED <<treeVars, history, call_in, pipelineVars>>

\* one iteration of for idx in vec, with its draw
SplitStep ==
    /\ call_out # NoCall
    /\ call_out.kind = "loop"
    /\ call_out.vec # <<>>
    /\ \E n1 \in Draws :
       \E r \in {Place(call_out.left, call_out.right, Head(call_out.vec),
                       n1, call_in.ratio)} :
          call_out' = [kind |-> "loop", vec |-> Tail(call_out.vec),
                       left |-> r.left, right |-> r.right]
    /\ UNCHANGED <<treeVars, history, call_in, pipelineVars>>

\* the four select calls and the return; select panics on an index that is
\* out of bounds
SplitReturn ==
    /\ call_out # NoCall
    /\ call_out.kind = "loop"
    /\ call_out.vec = <<>>
    /\ LET left_indexes == call_out.left
           right_indexes == call_out.right
       IN IF /\ SelectInBounds(Len(call_in.y), left_indexes)
             /\ SelectInBounds(Len(call_in.y), right_indexes)
          THEN call_out' =
                 [kind |-> "returned",
                  left_indexes |-> left_indexes,
                  right_indexes |-> right_indexes,
                  x_left  |-> selectRows(call_in.x, left_indexes),
                  x_right |-> selectRows(call_in.x, right_indexes),
                  y_left  |-> select(call_in.y, left_indexes),
                  y_right |-> select(call_in.y, right_indexes)]
          ELSE call_out' = [kind |-> "panic"]
    /\ UNCHANGED <<treeVars, history, call_in, pipelineVars>>

NextSplit == Shuffle \/ SplitStep \/ SplitReturn

SpecSplit == InitSplit /\ [][NextSplit]_vars

\* ----------------------------------------------------- confusion_matrix.rs
\* labels.iter().unique(): the first occurrence of every value, in order
RECURSIVE Unique(_)
Unique(labels) ==
    IF labels = <<>> THEN <<>>
    ELSE LET front == Unique(SubSeq(labels, 1, Len(labels) - 1))
             last == labels[Len(labels)]
         IN IF \E i \in 1..Len(front) : front[i] = last
            THEN front ELSE Append(front, last)

\* Array2::zeros((n, n))
Zeros(n) == [i \in 1..n |-> [j \in 1..n |-> 0]]

\* labels.iter().position(|p| p == v): Some(index) as the index, None as -1
Position(labels, v) ==
    IF \E i \in 1..Len(labels) : labels[i] = v
    THEN (CHOOSE i \in 1..Len(labels) :
             labels[i] = v /\ \A j \in 1..(i - 1) : labels[j] # v) - 1
    ELSE -1

\* add with the two indices exchanged
ConfusionAddTransposed(arr, labels, y_true, y_pred) ==
    LET cx == Position(labels, y_true)
        cy == Position(labels, y_pred)
    IN [arr EXCEPT ![cy + 1][cx + 1] = @ + 1]

\* ConfusionMatrix::add past its unwraps: self.arr[[x, y]] += 1
ConfusionAdd(arr, labels, y_true, y_pred) ==
    LET cx == Position(labels, y_true)
        cy == Position(labels, y_pred)
    IN [arr EXCEPT ![cx + 1][cy + 1] = @ + 1]

RECURSIVE SumTo(_, _)
SumTo(f, n) == IF n = 0 THEN 0 ELSE f[n] + SumTo(f, n - 1)

\* arr.sum_axis(Axis(0)): entry j is the sum over the rows i of arr[[i, j]]
sum_axis0(arr) == [j \in 1..Len(arr) |-> SumTo([i \in 1..Len(arr) |-> arr[i][j]], Len(arr))]

\* arr.sum_axis(Axis(1)): entry i is the sum over the columns j of arr[[i, j]]
sum_axis1(arr) == [i \in 1..Len(arr) |-> SumTo(arr[i], Len(arr))]

diag(arr) == [i \in 1..Len(arr) |-> arr[i][i]]

false_positive(arr) == [c \in 1..Len(arr) |-> sum_axis0(arr)[c] - diag(arr)[c]]

false_negative(arr) == [c \in 1..Len(arr) |-> sum_axis1(arr)[c] - diag(arr)[c]]

true_positive(arr) == diag(arr)

\* the arguments of from_labels and add_all: a label vector and two
\* vectors of the same length
InitConfusion ==
    /\ TreeIdle
    /\ PipelineIdle
    /\ \E l \in 0..MaxClassLabels : \E n \in 0..MaxPairs :
       \E labels \in [1..l -> Labels] :
       \E y_true \in [1..n -> Labels] : \E y_pred \in [1..n -> Labels] :
          call_in = [labels |-> labels, y_true |-> y_true, y_pred |-> y_pred]
    /\ call_out = NoCall

\* ConfusionMatrix::from_labels(labels)
FromLabels ==
    /\ call_out = NoCall
    /\ call_out' = [kind |-> "matrix",
                    labels |-> Unique(call_in.labels),
                    arr |-> Zeros(Len(Unique(call_in.labels))),
                    added |-> 0]
    /\ UNCHANGED <<treeVars, history, call_in, pipelineVars>>

\* one iteration of add_all: self.add(target, prediction); position(..)
\* .unwrap() panics on a label that is not in labels
AddNext ==
    /\ call_out # NoCall
    /\ call_out.kind = "matrix"
    /\ call_out.added < Len(call_in.y_true)
    /\ LET target == call_in.y_true[call_out.added + 1]
           prediction == call_in.y_pred[call_out.added + 1]
       IN IF Position(call_out.labels, target) = -1
             \/ Position(call_out.labels, prediction) = -1
          THEN call_out' = [kind |-> "panic"]
          ELSE call_out' =
                 [call_out EXCEPT
                    !.arr = ConfusionAdd(@, call_out.labels, target, prediction),
                    !.added = @ + 1]
    /\ UNCHANGED <<treeVars, history, call_in, pipelineVars>>

\* add_all has returned; true_positive(), false_negative() and
\* false_positive() are read
Counts ==
    /\ call_out # NoCall
    /\ call_out.kind = "matrix"
    /\ call_out.added = Len(call_in.y_true)
    /\ call_out' = [kind |-> "counted",
                    labels |-> call_out.labels,
                    arr |-> call_out.arr,
                    true_positive |-> true_positive(call_out.arr),
                    false_negative |-> false_negative(call_out.arr),
                    false_positive |-> false_positive(call_out.arr)]
    /\ UNCHANGED <<treeVars, history, call_in, pipelineVars>>

NextConfusion == FromLabels \/ AddNext \/ Counts

SpecConfusion == InitConfusion /\ [][NextConfusion]_vars

\* ------------------------------------------- tree/mod.rs, the legacy classifier
\* the f64 labels of the legacy classifier, in halves: 0.5, 1.0 and 2.0
LegacyLabels == {1, 2, 4}

\* `*elem as usize`: the cast truncates
AsUsize(elem) == elem \div 2

\* the keys under which entropy and TerminalNode::from_labels count labels
LegacyKeys(fy) == [i \in 1..Len(fy) |-> AsUsize(fy[i])]

\* depth - 1 on a u32: below zero the subtraction overflows (a panic or a
\* wrap to 2^32 - 1, by build profile), kept as -1
DepthMinusOne(depth) == IF depth >= 1 THEN depth - 1 ELSE -1

\* the classifier and the arguments of fit: as many labels as rows
InitLegacy ==
    /\ max_depth \in 0..MaxLegacyDepth
    /\ min_size = 1
    /\ x \in Matrices(MaxLegacyRows)
    /\ y \in [1..nrows(x) -> LegacyLabels]
    /\ status = "idle"
    /\ stack = <<>>
    /\ ret = NoNode
    /\ tree = NoNode
    /\ px = [ncols |-> x.ncols, rows |-> <<>>]
    /\ results = <<>>
    /\ history = <<>>
    /\ CallIdle
    /\ PipelineIdle

\* fit: calls build_tree(x, y, self.max_depth)
LegacyFit ==
    /\ status = "idle"
    /\ status' = "running"
    /\ stack' = <<Frame(x, y, max_depth)>>
    /\ UNCHANGED <<max_depth, min_size, x, y, ret, tree, px, results, history, nonTreeVars>>

\* build_tree with depth <= 1 and labels on both sides of the split: an
\* InteriorNode over two TerminalNodes
LegacyTerminals ==
    /\ status = "running" /\ stack # <<>> /\ Top.pc = "start"
    /\ Top.depth <= 1
    /\ \E r \in {apply(Top.x, LegacyKeys(Top.y))} :
          /\ r.left_indexes # <<>> /\ r.right_indexes # <<>>
          /\ \E l \in MajorityKeys(LegacyKeys(select(Top.y, r.left_indexes))) :
             \E g \in MajorityKeys(LegacyKeys(select(Top.y, r.right_indexes))) :
                ret' = new_interior(r.feature, r.threshold, Leaf(l), Leaf(g))
    /\ stack' = Pop
    /\ UNCHANGED <<max_depth, min_size, x, y, status, tree, px, results, history, nonTreeVars>>

\* build_tree with depth <= 1 and a side without labels: from_labels
\* unwraps the None of max_by_key on an empty histogram and panics
LegacyTerminalsPanic ==
    /\ status = "running" /\ stack # <<>> /\ Top.pc = "start"
    /\ Top.depth <= 1
    /\ \E r \in {apply(Top.x, LegacyKeys(Top.y))} :
          r.left_indexes = <<>> \/ r.right_indexes = <<>>
    /\ status' = "panicked"
    /\ UNCHANGED <<max_depth, min_size, x, y, stack, ret, tree, px, results, history, nonTreeVars>>

\* build_tree with depth > 1 and an empty side: a TerminalNode from the
\* labels of the other side
LegacyEmptySide ==
    /\ status = "running" /\ stack # <<>> /\ Top.pc = "start"
    /\ Top.depth > 1
    /\ \E r \in {apply(Top.x, LegacyKeys(Top.y))} :
          /\ r.left_indexes = <<>> \/ r.right_indexes = <<>>
          /\ \E side \in {IF r.left_indexes = <<>> THEN r.right_indexes
                          ELSE r.left_indexes} :
                /\ side # <<>>
                /\ \E key \in MajorityKeys(LegacyKeys(select(Top.y, side))) :
                      ret' = Leaf(key)
    /\ stack' = Pop
    /\ UNCHANGED <<max_depth, min_size, x, y, status, tree, px, results, history, nonTreeVars>>

\* the same when the other side is empty too (a matrix without rows)
LegacyEmptySidePanic ==
    /\ status = "running" /\ stack # <<>> /\ Top.pc = "start"
    /\ Top.depth > 1
    /\ \E r \in {apply(Top.x, LegacyKeys(Top.y))} :
          r.left_indexes = <<>> /\ r.right_indexes = <<>>
    /\ status' = "panicked"
    /\ UNCHANGED <<max_depth, min_size, x, y, stack, ret, tree, px, results, history, nonTreeVars>>

\* build_tree with depth > 1 and labels on both sides: the recursive call
\* on the left rows with depth - 1
LegacyLeft ==
    /\ status = "running" /\ stack # <<>> /\ Top.pc = "start"
    /\ Top.depth > 1
    /\ \E r \in {apply(Top.x, LegacyKeys(Top.y))} :
          /\ r.left_indexes # <<>> /\ r.right_indexes # <<>>
          /\ stack' = Pop \o
                << [Top EXCEPT !.pc = "left",
                               !.left_indexes = r.left_indexes,
                               !.right_indexes = r.right_indexes,
                               !.threshold = r.threshold,
                               !.feature = r.feature],
                   Frame(selectRows(Top.x, r.left_indexes),
                         select(Top.y, r.left_indexes),
                         DepthMinusOne(Top.depth)) >>
    /\ ret' = NoNode
    /\ UNCHANGED <<max_depth, min_size, x, y, status, tree, px, results, history, nonTreeVars>>

\* after the left child returned: the recursive call on the right rows
LegacyRight ==
    /\ status = "running" /\ stack # <<>> /\ Top.pc = "left"
    /\ ret.kind # "None"
    /\ LET f == [Top EXCEPT !.pc = "right", !.left = ret]
       IN stack' = Pop \o <<f, Frame(selectRows(Top.x, Top.right_indexes),
                                     select(Top.y, Top.right_indexes),
                                     DepthMinusOne(Top.depth))>>
    /\ ret' = NoNode
    /\ UNCHANGED <<max_depth, min_size, x, y, status, tree, px, results, history, nonTreeVars>>

\* after the right child returned the InteriorNode is returned, and fit
\* wraps the root, as in lib.rs
NextLegacy ==
    \/ LegacyFit
    \/ LegacyTerminals
    \/ LegacyTerminalsPanic
    \/ LegacyEmptySide
    \/ LegacyEmptySidePanic
    \/ LegacyLeft
    \/ LegacyRight
    \/ BuildTreeInterior
    \/ FitReturn

SpecLegacy == InitLegacy /\ [][NextLegacy]_vars

\* ===================================================== checked properties
\* number of occurrences of a label in a label vector
Count(ds, label) == Cardinality({ i \in 1..Len(ds) : ds[i] = label })

\* the arguments of fit are a training set of the data model: N >= 1 rows
\* and N labels
WellFormed == nrows(x) >= 1 /\ nrows(x) = Len(y)

Finished == status \in {"panicked", "fitted"}

\* the invocations that passed the feature selector
Split(f) == f.pc \in {"left", "right"}

\* C1: build_tree(x, y, depth) returns a Leaf whenever len(y) <= min_size
\* or depth > max_depth or entropy(y) == 0, and returns an Interior node
\* only when none of the three holds.  As a property of steps: the step of
\* an invocation at its first statement returns a Leaf exactly when the
\* stopping condition holds, and an invocation that returns an Interior
\* node did not meet the stopping condition.
C1_StopReturnsLeaf ==
    [][ /\ (status = "running" /\ stack # <<>> /\ Top.pc = "start")
           => (StopCondition(Top)
                 <=> (status' = "running" /\ stack' = Pop /\ ret'.kind = "Leaf"))
        /\ (status = "running" /\ stack # <<>> /\ ret'.kind = "Interior")
           => ~StopCondition(Top) ]_vars

\* C2 (as stated): for every non-empty training set, fit with
\* max_depth = 0 returns a Model whose root is a Leaf labelled with the
\* majority label of the full label vector.
C2_MaxDepthZeroRootIsLeaf ==
    (max_depth = 0 /\ WellFormed /\ status = "fitted")
        => /\ tree.kind = "Leaf"
           /\ \A l \in Labels : Count(y, l) <= Count(y, tree.probability)

\* C2 (amended): with max_depth = 0 the root is a Leaf exactly when
\* len(y) <= min_size or all labels are equal, and it then holds a label
\* whose count in y is maximal; otherwise the root is split once (depth 0
\* is not > max_depth), no invocation below the root ever splits, and a
\* returned tree is an Interior root over two Leaves.
C2_MaxDepthZeroOneSplit ==
    max_depth = 0 =>
        /\ \A i \in 1..Len(stack) :
              /\ stack[i].depth <= 1
              /\ stack[i].depth = 1 => stack[i].pc = "start"
        /\ status = "fitted" =>
              /\ tree.kind = "Leaf"
                    <=> (Len(y) <= min_size
                         \/ \A i, j \in 1..Len(y) : y[i] = y[j])
              /\ tree.kind = "Leaf"
                    => \A l \in Labels : Count(y, l) <= Count(y, tree.probability)
              /\ tree.kind = "Interior"
                    => tree.left.kind = "Leaf" /\ tree.right.kind = "Leaf"

\* C2 witness: a well-formed fit with max_depth = 0 that returned an
\* Interior root
C2_Witness ==
    /\ max_depth = 0 /\ WellFormed /\ status = "fitted"
    /\ tree.kind = "Interior"

\* C3: during fit on at least one row build_tree never recurses into an
\* empty partition and no leaf is computed from zero labels: every
\* invocation of build_tree has at least one label.
C3_NoEmptyPartition ==
    WellFormed => \A i \in 1..Len(stack) : Len(stack[i].y) > 0

\* C4: fitting rows that all have the same feature vector, with mixed
\* labels and more rows than min_size, does not fail: it ends with a
\* Model made of Leaves.
C4_IdenticalRowsFitSucceeds ==
    ( /\ WellFormed
      /\ \A i, j \in 1..nrows(x) : x.rows[i] = x.rows[j]
      /\ \E i, j \in 1..Len(y) : y[i] # y[j]
      /\ Len(y) > min_size
      /\ Finished )
        => status # "panicked"

\* C5: for every Interior node produced by build_tree (the invocation
\* whose two children have returned), the left and right index sets are
\* disjoint and their union is {0 .. len(y)-1} for the node's labels y.
C5_InteriorPartition ==
    (status = "running" /\ stack # <<>> /\ Top.pc = "right" /\ ret.kind # "None")
        => /\ IndexSet(Top.left_indexes) \cap IndexSet(Top.right_indexes) = {}
           /\ IndexSet(Top.left_indexes) \cup IndexSet(Top.right_indexes)
                 = 0..(Len(Top.y) - 1)

\* C6: fit with zero training rows ends by reporting InvalidInput to the
\* caller (no Model, no panic from a leaf computed on no labels).
C6_ZeroRowsInvalidInput ==
    (nrows(x) = 0 /\ Len(y) = 0 /\ Finished) => status = "invalid_input"

\* C7: fit with a feature matrix whose row count differs from the label
\* count reports InvalidInput and builds no tree.
C7_MismatchInvalidInput ==
    (nrows(x) # Len(y))
        => /\ tree.kind = "None"
           /\ Finished => status = "invalid_input"

\* the (column, row) pairs the two loops of apply visit, and their order
CandidateIndexes(fx) == (0..(fx.ncols - 1)) \X (0..(nrows(fx) - 1))

Before(a, b) == a[1] < b[1] \/ (a[1] = b[1] /\ a[2] < b[2])

\* candidate c of invocation f is the split that f got from apply
IsChosen(f, c) ==
    LET cand == Candidate(f.x, f.y, c[1], c[2])
    IN /\ f.feature = c[1]
       /\ f.threshold = cand.split_value
       /\ f.left_indexes = cand.left_indexes
       /\ f.right_indexes = cand.right_indexes

\* apply has just returned its split to the invocation below the top, which
\* stored it and called build_tree on the left rows
JustSplit ==
    /\ status = "running" /\ Len(stack) >= 2
    /\ Top.pc = "start" /\ stack[Len(stack) - 1].pc = "left"

\* the candidates in the order the two loops of apply visit them: columns
\* outer, rows inner
RECURSIVE CandidateList(_, _, _)
CandidateList(fx, fy, k) ==
    IF k >= fx.ncols * nrows(fx) THEN <<>>
    ELSE <<Candidate(fx, fy, k \div nrows(fx), k % nrows(fx))>>
            \o CandidateList(fx, fy, k + 1)

\* C8: apply returns a candidate whose score is the maximum over all
\* (column j, row i) candidates, and among the candidates of maximal score
\* the first one in the order columns 0..M outer, rows 0..N inner: no
\* candidate scores more than the returned one and every earlier candidate
\* scores strictly less.  (Stated where apply returns, for the invocations
\* that evaluated at least one candidate.)
C8_FirstBestCandidate ==
    (JustSplit /\ nrows(stack[Len(stack) - 1].x) >= 1) =>
        \A f \in {stack[Len(stack) - 1]} :
        \A cand \in {CandidateList(f.x, f.y, 0)} :
           \E c \in 1..Len(cand) :
              /\ f.feature = cand[c].column_index
              /\ f.threshold = cand[c].split_value
              /\ f.left_indexes = cand[c].left_indexes
              /\ f.right_indexes = cand[c].right_indexes
              /\ \A d \in 1..Len(cand) :
                    /\ ~ScoreGreater(cand[d].score, cand[c].score)
                    /\ d < c => ScoreGreater(cand[c].score, cand[d].score)

\* C8 witness: an invocation whose returned split has rows on both sides
\* and ties in score with a later candidate that splits on another column
\* or threshold
C8_Witness ==
    /\ JustSplit
    /\ \E f \in {stack[Len(stack) - 1]} :
          /\ nrows(f.x) = Len(f.y)
          /\ f.left_indexes # <<>>
          /\ \E c, d \in CandidateIndexes(f.x) :
                /\ IsChosen(f, c)
                /\ Before(c, d)
                /\ ~IsChosen(f, d)
                /\ ScoreEqual(Candidate(f.x, f.y, c[1], c[2]).score,
                              Candidate(f.x, f.y, d[1], d[2]).score)

\* C9: for the (feature j, threshold t) returned by apply, the left index
\* set is exactly the rows r with x[r][j] < t and the right index set is
\* exactly the rows with x[r][j] >= t, each row listed once; a row whose
\* value equals the threshold is in the right set.
C9_SplitByThreshold ==
    \A k \in 1..Len(stack) :
        LET f == stack[k]
            rows == 0..(nrows(f.x) - 1)
        IN Split(f) =>
              /\ IndexSet(f.left_indexes)
                    = { r \in rows : f.x.rows[r + 1][f.feature + 1] < f.threshold }
              /\ IndexSet(f.right_indexes)
                    = { r \in rows : f.x.rows[r + 1][f.feature + 1] >= f.threshold }
              /\ Cardinality(IndexSet(f.left_indexes)) = Len(f.left_indexes)
              /\ Cardinality(IndexSet(f.right_indexes)) = Len(f.right_indexes)

\* C9 witness: a returned split with rows on both sides, one of them a row
\* whose value equals the threshold
C9_Witness ==
    \E k \in 1..Len(stack) :
        LET f == stack[k]
        IN /\ Split(f)
           /\ f.left_indexes # <<>>
           /\ \E r \in IndexSet(f.right_indexes) :
                 f.x.rows[r + 1][f.feature + 1] = f.threshold

\* the paths from a root: "L" descends left, "R" descends right
Paths == UNION { [1..n -> {"L", "R"}] : n \in 0..MaxHeight }

RECURSIVE NodeAt(_, _)
NodeAt(node, path) ==
    IF path = <<>> THEN node
    ELSE IF node.kind # "Interior" THEN NoNode
    ELSE NodeAt(IF path[1] = "L" THEN node.left ELSE node.right, Tail(path))

\* the walk of a row from the root follows this path to a Leaf
Routes(root, row, path) ==
    /\ NodeAt(root, path).kind = "Leaf"
    /\ \A n \in 1..Len(path) :
          LET node == NodeAt(root, SubSeq(path, 1, n - 1))
          IN (path[n] = "L") <=> (row[node.feature + 1] < node.threshold)

\* C10: predict returns exactly one label per input row, in input row
\* order: result r is the label of the Leaf reached from the root by
\* descending left at an Interior node iff row[feature] < threshold.
C10_PredictWalksTree ==
    status = "predicted" =>
        /\ Len(results) = nrows(px)
        /\ \A r \in 1..nrows(px) :
              \E path \in Paths :
                 /\ Routes(tree, px.rows[r], path)
                 /\ results[r] = NodeAt(tree, path).probability

\* C10 witness: two rows predicted through an Interior root to different
\* labels, the second row holding exactly the threshold
C10_Witness ==
    /\ status = "predicted"
    /\ tree.kind = "Interior"
    /\ nrows(px) = 2
    /\ results[1] # results[2]
    /\ px.rows[2][tree.feature + 1] = tree.threshold
    /\ px.rows[1][tree.feature + 1] < tree.threshold

\* C11: two calls of fit with the same classifier configuration and the
\* same (x, y) of at least one row return structurally identical trees,
\* also when the labels routed to a leaf are tied for the highest count:
\* all the trees returned so far by fit are equal.
C11_FitDeterministic ==
    \A i, j \in 1..Len(history) : history[i] = history[j]

\* the paths of a fitted tree
FitPaths == UNION { [1..n -> {"L", "R"}] : n \in 0..(MaxMaxDepth + 1) }

\* the training rows that the walk from the root routes along a path
Routed(path) == { r \in 1..nrows(x) : Routes(tree, x.rows[r], path) }

\* C12: the label stored in every Leaf of a fitted tree is a majority
\* label of the training rows routed to that leaf: its count among their
\* labels is greater than or equal to the count of every other label.
C12_LeafIsMajority ==
    (status = "fitted" /\ WellFormed) =>
        \A path \in FitPaths :
            NodeAt(tree, path).kind = "Leaf" =>
                \A routed \in {Routed(path)} :
                \A l \in Labels :
                    Cardinality({ r \in routed : y[r] = l })
                        <= Cardinality({ r \in routed :
                                          y[r] = NodeAt(tree, path).probability })

\* C12 witness: a fitted tree with a Leaf to which rows of two labels in
\* unequal numbers were routed
C12_Witness ==
    /\ status = "fitted" /\ WellFormed
    /\ \E path \in FitPaths :
          /\ NodeAt(tree, path).kind = "Leaf"
          /\ \E l \in Labels :
                LET other == Cardinality({ r \in Routed(path) : y[r] = l })
                IN /\ other >= 1
                   /\ other < Cardinality({ r \in Routed(path) :
                                              y[r] = NodeAt(tree, path).probability })

\* C13: fitting DecisionTreeClassifier(max_depth=1, min_size=1) on
\* x = [1,1,1,1,5,5,5,5] (one column) with y = [A,A,A,A,B,B,B,B] does not
\* fail and yields a tree with exactly two leaves: root Interior on
\* feature 0 with threshold 5, left Leaf A and right Leaf B;
\* predict([[1],[5]]) returns [A, B].
C13_WorkedExample ==
    (max_depth = 1 /\ min_size = 1 /\ x = ExampleX /\ y = ExampleY) =>
        /\ status # "panicked"
        /\ status \in {"fitted", "predicted"} =>
              tree = new_interior(0, 5, Leaf("A"), Leaf("B"))
        /\ (status = "predicted" /\ px = ExamplePx) => results = <<"A", "B">>

\* C13 witness: the example was fitted and its Model has predicted
C13_Witness ==
    /\ max_depth = 1 /\ min_size = 1 /\ x = ExampleX /\ y = ExampleY
    /\ px = ExamplePx
    /\ status = "predicted"
    /\ Len(results) = 2

\* number of Interior nodes on the longest path from a node to a Leaf
RECURSIVE Height(_)
Height(node) ==
    IF node.kind = "Interior"
    THEN LET l == Height(node.left)
             r == Height(node.right)
         IN 1 + (IF l > r THEN l ELSE r)
    ELSE 0

\* C14: in every fit each invocation of build_tree has depth <=
\* max_depth + 1, an invocation at depth max_depth + 1 never passes its
\* first statement into the splitting branch (the node built there is a
\* Leaf), and every root-to-leaf path of the fitted tree has at most
\* max_depth + 1 Interior nodes.
C14_DepthBounded ==
    /\ \A i \in 1..Len(stack) :
          /\ stack[i].depth = i - 1
          /\ stack[i].depth <= max_depth + 1
          /\ stack[i].depth = max_depth + 1 => stack[i].pc = "start"
    /\ (Len(stack) = max_depth + 1 /\ ret.kind # "None") => ret.kind = "Leaf"
    /\ status = "fitted" => Height(tree) <= max_depth + 1

\* C14 witness: a fitted tree with a path of exactly max_depth + 1 Interior
\* nodes, for a max_depth of at least 1
C14_Witness ==
    /\ status = "fitted"
    /\ max_depth >= 1
    /\ Height(tree) = max_depth + 1

IdenticalRows(fx) == \A i, j \in 1..nrows(fx) : fx.rows[i] = fx.rows[j]

\* C16: for a node with N >= 1 rows (and N labels) and M >= 1 columns whose
\* feature rows are all identical, apply does not fail, and the split it
\* returns is a candidate that was evaluated: a column of the matrix, the
\* value observed in that column as threshold, one index vector empty and
\* the other holding all N rows; not the initial defaults.
C16_IdenticalRowsEvaluated ==
    /\ ( /\ status = "running" /\ stack # <<>> /\ Top.pc = "start"
         /\ ~StopCondition(Top)
         /\ nrows(Top.x) >= 1 /\ nrows(Top.x) = Len(Top.y)
         /\ IdenticalRows(Top.x) )
            => ~ApplyPanics(Top.x, Top.y)
    /\ JustSplit =>
          \A f \in {stack[Len(stack) - 1]} :
             (nrows(f.x) >= 1 /\ IdenticalRows(f.x)) =>
                /\ f.feature \in 0..(f.x.ncols - 1)
                /\ f.threshold = f.x.rows[1][f.feature + 1]
                /\ \/ /\ f.left_indexes = <<>>
                      /\ f.right_indexes = AllIndexes(nrows(f.x))
                   \/ /\ f.right_indexes = <<>>
                      /\ f.left_indexes = AllIndexes(nrows(f.x))

\* C16 witness: apply has returned for a node of two columns and at least
\* two identical rows
C16_Witness ==
    /\ JustSplit
    /\ \E f \in {stack[Len(stack) - 1]} :
          /\ nrows(f.x) >= 2 /\ nrows(f.x) = Len(f.y)
          /\ f.x.ncols = 2
          /\ IdenticalRows(f.x)

\* information gain >= 0:  total_entropy >= weighted_average
GainNonNegative(score) ==
    LET g == GCD(score.total.num, score.wnum)
        h == GCD(score.total.den, score.wden)
    IN (score.total.num \div g) * (score.wden \div h)
          >= (score.total.den \div h) * (score.wnum \div g)

GainIsZero(score) ==
    LET g == GCD(score.total.num, score.wnum)
        h == GCD(score.total.den, score.wden)
    IN (score.total.num \div g) * (score.wden \div h)
          = (score.total.den \div h) * (score.wnum \div g)

EntropyEqual(a, b) ==
    LET g == GCD(a.num, b.num)
        h == GCD(a.den, b.den)
    IN (a.num \div g) * (b.den \div h) = (b.num \div g) * (a.den \div h)

C19_EntropyValues ==
    call_out.kind = "entropy" =>
        LET ds      == call_in.dataset
            classes == { l \in MeasureLabels : Count(ds, l) > 0 }
            k       == Cardinality(classes)
        IN /\ (Len(ds) >= 1 /\ k = 1) => EntropyIsZero(call_out.value)
           /\ (k >= 1 /\ \A a, b \in classes : Count(ds, a) = Count(ds, b))
                 => call_out.value.num = call_out.value.den * Pow(k, Len(ds))
           /\ ds = ExampleY
                 => call_out.value.num = call_out.value.den * Pow(2, 8 * 1)

\* C19 witness: entropy was taken of one occurrence each of three classes
C19_Witness ==
    /\ call_out.kind = "entropy"
    /\ Len(call_in.dataset) = 3
    /\ \A l \in MeasureLabels : Count(call_in.dataset, l) = 1

\* a stage applied to a whole sequence, entry after entry
RECURSIVE StageSequential(_, _)
StageSequential(kind, entries) ==
    IF entries = <<>> THEN <<>>
    ELSE StageOutput(kind, Head(entries)) \o StageSequential(kind, Tail(entries))

\* the first n stages applied to the source one after the other
RECURSIVE Sequential(_)
Sequential(n) ==
    IF n = 0 THEN pipeline.source
    ELSE StageSequential(pipeline.stages[n], Sequential(n - 1))

IsPrefix(a, b) == Len(a) <= Len(b) /\ a = SubSeq(b, 1, Len(a))

\* C20: for a finite source, Pipeline::from(source) followed by any chain
\* of single-threaded stages (map, filter, pipe) yields, when iterated to
\* the end, exactly the sequence obtained by applying the same functions
\* to the source sequentially: no item is lost, duplicated or reordered,
\* for any batch_size >= 1 and any buff_size.  What the caller has
\* collected is always a prefix of that sequence, and all of it when the
\* iteration has ended.
C20_ChainSequential ==
    pipeline # NoCall =>
        /\ IsPrefix(produced, Sequential(NStages))
        /\ threads[Caller].pc = "ended" => produced = Sequential(NStages)

\* C20 witness: the iteration of map followed by filter has ended with
\* three items collected, through channels of batch_size 2
C20_Witness ==
    /\ pipeline # NoCall
    /\ threads[Caller].pc = "ended"
    /\ pipeline.stages = <<"map", "filter">>
    /\ pipeline.config.batch_size = 2
    /\ Len(produced) = 3

\* the number of times a worker of ppipe or Multiplex was handed item v
TimesTaken(v) ==
    Cardinality({<<w, i>> \in WorkerThreads \X (1..MaxItems + 1) :
                    i <= Len(threads[w].taken) /\ threads[w].taken[i] = v})

\* C21: with workers > 1, pmap(workers, f) (ppipe with the mapper closure)
\* and Multiplex over Mappers hand each input item to exactly one worker
\* and emit f(item) exactly once: under every interleaving no item is
\* handed to two workers, nothing is collected twice and everything
\* collected is f of an input item; when the iteration has ended every
\* item was handed to one worker and the outputs are the multiset
\* {f(x) : x in input}.
C21_EachItemOnce ==
    (pipeline # NoCall /\ pipeline.kind \in {"ppipe", "multiplex"}
       /\ pipeline.workers > 1) =>
        /\ \A i \in 1..Len(pipeline.source) :
              /\ TimesTaken(pipeline.source[i]) <= 1
              /\ Count(produced, 2 * pipeline.source[i]) <= 1
        /\ \A j \in 1..Len(produced) :
              \E i \in 1..Len(pipeline.source) : produced[j] = 2 * pipeline.source[i]
        /\ threads[CallerThread].pc = "ended" =>
              \A i \in 1..Len(pipeline.source) :
                 /\ TimesTaken(pipeline.source[i]) = 1
                 /\ Count(produced, 2 * pipeline.source[i]) = 1

\* C21 witness: pmap(2, f) over three items has ended, both workers were
\* handed items and the outputs arrived in another order than the input
C21_Witness ==
    /\ pipeline # NoCall
    /\ pipeline.kind = "ppipe"
    /\ pipeline.workers = 2
    /\ Len(pipeline.source) = 3
    /\ threads[CallerThread].pc = "ended"
    /\ \A w \in WorkerThreads : threads[w].taken # <<>>
    /\ Len(produced) = 3
    /\ produced # <<2, 4, 6>>

\* the values of the source entries with the key, in source order
ValuesOf(key) ==
    LET entries == SelectSeq(pipeline.source, LAMBDA e : e[1] = key)
    IN [i \in 1..Len(entries) |-> entries[i][2]]

\* the entries on their way to reducer thread t: in the Sender made for
\* it, in its channel, in its buffer or in its hand
RoutedTo(t) ==
    LET s == IF pipeline.kind = "reduce" THEN <<0, 1>> ELSE <<1, t>>
        batches == channels[InChannel(t)]
    IN {senders[s].buffer[i] : i \in 1..Len(senders[s].buffer)}
       \cup {senders[s].pending[i] : i \in 1..Len(senders[s].pending)}
       \cup {batches[b][i] : <<b, i>> \in
                {<<b, i>> \in (1..Len(batches)) \X (1..MaxItems + 1) :
                    i <= Len(batches[b])}}
       \cup {receivers[t][i] : i \in 1..Len(receivers[t])}
       \cup (IF threads[t].pc = "have" THEN {threads[t].item} ELSE {})

\* C22: in preduce(workers, f) (reduce for one worker, distribute with the
\* reducer closure otherwise) every (key, value) pair with the same key is
\* routed to the same reducer thread, and f is called exactly once per
\* distinct key of the input with exactly all values that had that key:
\* an entry on its way to a reducer, or grouped by it, has a key that
\* selects this reducer; no key is collected twice; when the iteration has
\* ended there is one call per key of the input, with all its values.
C22_OneCallPerKey ==
    (pipeline # NoCall /\ pipeline.kind \in {"reduce", "distribute"}) =>
        /\ pipeline.kind = "distribute" =>
              \A t \in WorkerThreads :
                 /\ \A e \in RoutedTo(t) : Which(e[1]) = t
                 /\ \A k \in DOMAIN threads[t].hm : Which(k) = t
        /\ \A i, j \in 1..Len(produced) : produced[i][1] = produced[j][1] => i = j
        /\ \A j \in 1..Len(produced) :
              /\ produced[j][2] # <<>>
              /\ produced[j][2] = ValuesOf(produced[j][1])
        /\ threads[CallerThread].pc = "ended" =>
              \A i \in 1..Len(pipeline.source) :
                 \E j \in 1..Len(produced) : produced[j][1] = pipeline.source[i][1]

\* C22 witness: preduce over two reducers has ended; the keys went to
\* different reducers and one key had two values
C22_Witness ==
    /\ pipeline # NoCall
    /\ pipeline.kind = "distribute"
    /\ pipeline.workers = 2
    /\ Which("a") # Which("b")
    /\ threads[CallerThread].pc = "ended"
    /\ Len(produced) = 2
    /\ \E j \in 1..2 : Len(produced[j][2]) = 2

\* thread t has seen its iterator return None
PastNone(t) ==
    \/ threads[t].pc \in {"emit", "drop", "dropsend", "done", "ended"}
    \/ ~IsChain /\ threads[t].pc = "send" /\ threads[t].cont = "emit"

\* the Senders of the channel thread t receives from
Upstream(t) ==
    IF IsChain THEN {t} ELSE {s \in DOMAIN senders : s[2] = InChannel(t)}

\* nothing sent to thread t is undelivered and every Sender of its channel
\* was dropped
AllReceived(t) ==
    /\ receivers[t] = <<>>
    /\ channels[IF IsChain THEN t ELSE InChannel(t)] = <<>>
    /\ \A s \in Upstream(t) :
          /\ ~senders[s].alive
          /\ senders[s].buffer = <<>>
          /\ senders[s].pending = <<>>

\* the iteration has ended and every thread has returned
AllFinished ==
    \A t \in DOMAIN threads :
       threads[t].pc = IF t = (IF IsChain THEN Caller ELSE CallerThread)
                       THEN "ended" ELSE "done"

\* C23: for a pipeline built from a finite source with a chain of map,
\* filter and pipe stages or a ppipe/pmap, Multiplex, reduce or
\* distribute/preduce stage, an iterator never returns None while a Sender
\* of its channel is alive or data sent to it is undelivered, and with
\* every thread scheduled the iteration of the final pipeline eventually
\* ends with every thread returned: no stage deadlocks, for any buff_size
\* and worker count.
C23_IterationEnds ==
    /\ [](\A t \in DOMAIN threads : (t >= 1 /\ PastNone(t)) => AllReceived(t))
    /\ <>AllFinished

\* C23 witness: the iteration over a preduce stage with two reducers on
\* rendezvous channels has ended with both keys collected and every thread
\* returned
C23_Witness ==
    /\ ~IsChain
    /\ pipeline.kind = "distribute"
    /\ pipeline.workers = 2
    /\ pipeline.config.buff_size = 0
    /\ AllFinished
    /\ Len(produced) = 2

\* C24: train_test_split partitions the row indices 0..N-1 into two groups
\* that are disjoint and together contain every index exactly once, for
\* every ratio and every outcome of the shuffle and of the draws: during
\* the loop the indices placed and the indices still to place are each
\* index once, and the returned x and y of each group are the rows and
\* labels at the group's index list, so their lengths are equal.
C24_SplitPartitions ==
    /\ (call_out # NoCall /\ call_out.kind = "loop") =>
          \A i \in 0..(nrows(call_in.x) - 1) :
             Count(call_out.left \o call_out.right \o call_out.vec, i) = 1
    /\ (call_out # NoCall /\ call_out.kind = "returned") =>
          /\ IndexSet(call_out.left_indexes) \cap IndexSet(call_out.right_indexes) = {}
          /\ \A i \in 0..(nrows(call_in.x) - 1) :
                Count(call_out.left_indexes \o call_out.right_indexes, i) = 1
          /\ Len(call_out.left_indexes) + Len(call_out.right_indexes)
                = nrows(call_in.x)
          /\ nrows(call_out.x_left) = Len(call_out.y_left)
          /\ nrows(call_out.x_right) = Len(call_out.y_right)
          /\ \A k \in 1..Len(call_out.left_indexes) :
                /\ call_out.x_left.rows[k] = call_in.x.rows[call_out.left_indexes[k] + 1]
                /\ call_out.y_left[k] = call_in.y[call_out.left_indexes[k] + 1]
          /\ \A k \in 1..Len(call_out.right_indexes) :
                /\ call_out.x_right.rows[k] = call_in.x.rows[call_out.right_indexes[k] + 1]
                /\ call_out.y_right[k] = call_in.y[call_out.right_indexes[k] + 1]

\* C24 witness: three rows were split with a ratio inside the unit
\* interval into two groups that are not empty, the larger one out of
\* row order
C24_Witness ==
    /\ call_out # NoCall
    /\ call_out.kind = "returned"
    /\ nrows(call_in.x) = 3
    /\ Len(call_in.y) = 3
    /\ call_in.ratio = [nan |-> FALSE, quarters |-> 1]
    /\ Len(call_out.left_indexes) = 2
    /\ call_out.left_indexes[1] > call_out.left_indexes[2]
    /\ Len(call_out.y_right) = 1

\* the number of the first n positions with the true label a and the
\* predicted label b
Pairs(n, a, b) ==
    Cardinality({k \in 1..n : call_in.y_true[k] = a /\ call_in.y_pred[k] = b})

\* C25: after ConfusionMatrix::from_labels(L) and add_all(y_true, y_pred)
\* on equal-length vectors whose labels all occur in L, cell [i][j] is the
\* number of positions k with y_true[k] = labels[i] and y_pred[k] =
\* labels[j] (after every add, for the positions added so far); hence for
\* every class c, true_positive[c] + false_negative[c] is the number of
\* occurrences of c in y_true and true_positive[c] + false_positive[c] the
\* number of occurrences of c in y_pred.
C25_CellsCountPairs ==
    /\ (call_out # NoCall /\ call_out.kind = "matrix") =>
          \A i, j \in 1..Len(call_out.labels) :
             call_out.arr[i][j]
                = Pairs(call_out.added, call_out.labels[i], call_out.labels[j])
    /\ (call_out # NoCall /\ call_out.kind = "counted") =>
          /\ \A i, j \in 1..Len(call_out.labels) :
                call_out.arr[i][j]
                   = Pairs(Len(call_in.y_true), call_out.labels[i], call_out.labels[j])
          /\ \A c \in 1..Len(call_out.labels) :
                /\ call_out.true_positive[c] + call_out.false_negative[c]
                      = Count(call_in.y_true, call_out.labels[c])
                /\ call_out.true_positive[c] + call_out.false_positive[c]
                      = Count(call_in.y_pred, call_out.labels[c])

\* C25 witness: two classes, three pairs: one right, two with the first
\* class predicted as the second, none the other way
C25_Witness ==
    /\ call_out # NoCall
    /\ call_out.kind = "counted"
    /\ Len(call_out.labels) = 2
    /\ Len(call_in.labels) = 3
    /\ call_out.arr[1][1] = 1
    /\ call_out.arr[1][2] = 2
    /\ call_out.false_negative[1] = 2
    /\ call_out.false_positive[2] = 2

\* C26: for every candidate evaluated by apply on a node with N >= 1 rows,
\* the row that supplies the threshold is placed in the right set, so the
\* right index set of the returned split is never empty; only the left set
\* can be empty, and it is empty exactly when the returned threshold is
\* the minimum of the returned column.  (Stated where apply returns.)
C26_ThresholdRowGoesRight ==
    (JustSplit /\ nrows(stack[Len(stack) - 1].x) >= 1) =>
        \A f \in {stack[Len(stack) - 1]} :
           /\ \A column_index \in 0..(f.x.ncols - 1) :
              \A row_index \in 0..(nrows(f.x) - 1) :
                 \A columns \in {column(f.x, column_index)} :
                    row_index \in
                       IndexSet(split_by_value(columns, columns[row_index + 1]).right)
           /\ f.right_indexes # <<>>
           /\ f.left_indexes = <<>>
                 <=> \A r \in 1..nrows(f.x) :
                        f.x.rows[r][f.feature + 1] >= f.threshold

\* C26 witness: apply returned a split of three rows and two columns with
\* an empty left set and all rows on the right
C26_Witness ==
    /\ JustSplit
    /\ \E f \in {stack[Len(stack) - 1]} :
          /\ nrows(f.x) = 3
          /\ f.x.ncols = 2
          /\ f.left_indexes = <<>>
          /\ Len(f.right_indexes) = 3

\* the position (from 0) of row r in an index vector
IndexIn(indexes, r) == (CHOOSE k \in 1..Len(indexes) : indexes[k] = r) - 1

\* the paths of all rows of a node, in row order: each row's path is the
\* side it was sent to followed by its path in the call on that side
TrainJoin(n, split, lefts, rights) ==
    [r \in 1..n |->
        IF (r - 1) \in IndexSet(split.left_indexes)
        THEN <<"L">> \o lefts[IndexIn(split.left_indexes, r - 1) + 1]
        ELSE <<"R">> \o rights[IndexIn(split.right_indexes, r - 1) + 1]]

\* the training partition: for every row of fx the path of the recursive
\* calls of build_tree on (fx, fy) at this depth whose row subsets contain
\* it, down to the call that returns a Leaf
RECURSIVE TrainPaths(_, _, _)
TrainPaths(fx, fy, depth) ==
    IF StopCondition(Frame(fx, fy, depth)) THEN [r \in 1..nrows(fx) |-> <<>>]
    ELSE CHOOSE paths \in
            { TrainJoin(nrows(fx), split,
                        TrainPaths(selectRows(fx, split.left_indexes),
                                   select(fy, split.left_indexes), depth + 1),
                        TrainPaths(selectRows(fx, split.right_indexes),
                                   select(fy, split.right_indexes), depth + 1))
              : split \in {apply(fx, fy)} } : TRUE

\* C27: for a Model returned by fit(x, y), predict applied to any training
\* row x[r] ends in the Leaf whose training subset contained r: the walk
\* of the row from the root follows the path of the calls of build_tree
\* that held the row; consequently, if every Leaf of the tree was created
\* from a pure label subset, predict(x) equals y.
C27_PredictFollowsTraining ==
    (status = "fitted" /\ WellFormed) =>
        \A paths \in {TrainPaths(x, y, 0)} :
           /\ \A r \in 1..nrows(x) : Routes(tree, x.rows[r], paths[r])
           /\ (\A r1, r2 \in 1..nrows(x) : paths[r1] = paths[r2] => y[r1] = y[r2])
                 => ModelPredict(tree, x) = y

\* C27 witness: a fitted tree with an Interior root, three training rows,
\* both leaves created from pure subsets, and the two labels predicted
C27_Witness ==
    /\ status = "fitted" /\ WellFormed
    /\ tree.kind = "Interior"
    /\ nrows(x) = 3
    /\ \A paths \in {TrainPaths(x, y, 0)} :
       \A r1, r2 \in 1..nrows(x) : paths[r1] = paths[r2] => y[r1] = y[r2]
    /\ \E r1, r2 \in 1..nrows(x) : y[r1] # y[r2]
    /\ ModelPredict(tree, x) = y

\* the number of Leaves of a tree
RECURSIVE Leaves(_)
Leaves(node) ==
    IF node.kind = "Interior" THEN Leaves(node.left) + Leaves(node.right) ELSE 1

\* C28: whenever build_tree has split a node into two non-empty sides,
\* each child is built on strictly fewer rows than its parent and the two
\* children's row counts sum to the parent's: the invocation called for a
\* side holds exactly the rows and labels of that side.  So the number of
\* Leaves of a fitted tree never exceeds the number of training rows, and
\* the row count alone bounds the recursion.
C28_ChildrenShrink ==
    /\ \A i \in 1..Len(stack) :
          LET f == stack[i]
          IN (f.pc \in {"left", "right"}
                /\ f.left_indexes # <<>> /\ f.right_indexes # <<>>) =>
                /\ Len(f.left_indexes) + Len(f.right_indexes) = nrows(f.x)
                /\ Len(f.left_indexes) < nrows(f.x)
                /\ Len(f.right_indexes) < nrows(f.x)
                /\ i < Len(stack) =>
                      /\ nrows(stack[i + 1].x) < nrows(f.x)
                      /\ nrows(stack[i + 1].x)
                            = Len(IF f.pc = "left" THEN f.left_indexes
                                  ELSE f.right_indexes)
                      /\ Len(stack[i + 1].y) = nrows(stack[i + 1].x)
    /\ (status = "fitted" /\ WellFormed) => Leaves(tree) <= nrows(x)

\* C28 witness: a fitted tree with three training rows and three Leaves
C28_Witness ==
    /\ status = "fitted" /\ WellFormed
    /\ nrows(x) = 3
    /\ Leaves(tree) = 3

\* C29: in the legacy classifier build_tree counts depth down from
\* max_depth: (1) when depth > 1 and the chosen split has an empty side
\* the invocation returns a TerminalNode from the labels of the non-empty
\* side without recursing; (2) depth - 1 is computed only when depth >= 2,
\* so every invocation below the root has the depth of its caller less
\* one and no depth is below zero; (3) when depth <= 1 the invocation
\* always returns an InteriorNode with two TerminalNode children.
C29_LegacyBuildTree ==
    [][ (status = "running" /\ stack # <<>>) =>
          /\ \A i \in 1..(Len(stack) - 1) :
                /\ stack[i].depth >= 2
                /\ stack[i + 1].depth = stack[i].depth - 1
          /\ Len(stack') > Len(stack) =>
                /\ Top.depth >= 2
                /\ stack'[Len(stack')].depth = Top.depth - 1
          /\ Top.pc = "start" =>
                \A r \in {apply(Top.x, LegacyKeys(Top.y))} :
                   /\ (Top.depth > 1
                         /\ (r.left_indexes = <<>>) # (r.right_indexes = <<>>)) =>
                         /\ stack' = Pop
                         /\ ret'.kind = "Leaf"
                         /\ ret'.probability \in
                               MajorityKeys(LegacyKeys(select(Top.y,
                                   r.left_indexes \o r.right_indexes)))
                   /\ Top.depth <= 1 =>
                         /\ status' = "running"
                         /\ stack' = Pop
                         /\ ret'.kind = "Interior"
                         /\ ret'.left.kind = "Leaf"
                         /\ ret'.right.kind = "Leaf" ]_vars

\* the batches of a channel one after the other
RECURSIVE Flatten(_)
Flatten(batches) ==
    IF batches = <<>> THEN <<>> ELSE Head(batches) \o Flatten(Tail(batches))

\* the entry a thread took from its iterator and has not yet processed
InHand(k) == IF threads[k].pc = "have" THEN <<threads[k].item>> ELSE <<>>

\* what the iterator of thread k has still to return, in order: its own
\* buffer, the batches of its channel, the batch of a blocked
\* SyncSender::send, the buffer of the Sender, and what the thread before
\* it has still to pass to send
RECURSIVE Rest(_)
Rest(k) ==
    IF k = 0 THEN receivers[0]
    ELSE LET before == InHand(k - 1) \o Rest(k - 1)
         IN receivers[k] \o Flatten(channels[k]) \o senders[k].pending
               \o senders[k].buffer
               \o (IF k = 1 THEN before
                   ELSE StageSequential(pipeline.stages[k - 1], before))

\* C30: for batch_size >= 1 a Sender never transmits an empty batch and
\* never a batch longer than batch_size; when send has returned (and at
\* any other time) its buffer holds fewer than batch_size items; a
\* dropped Sender has flushed whatever remained; so every item passed to
\* send is transmitted exactly once: what the caller has collected,
\* followed by everything held in receivers, channels and Senders and by
\* what is still to be sent, is exactly the sequential result.
C30_SenderBatches ==
    pipeline # NoCall =>
        /\ \A c \in DOMAIN senders :
              /\ \A i \in 1..Len(channels[c]) :
                    /\ Len(channels[c][i]) >= 1
                    /\ Len(channels[c][i]) <= ChannelConfig(c).batch_size
              /\ Len(senders[c].pending) <= ChannelConfig(c).batch_size
              /\ Len(senders[c].buffer) < ChannelConfig(c).batch_size
              /\ threads[c - 1].pc \in {"send", "dropsend"}
                    <=> senders[c].pending # <<>>
              /\ ~senders[c].alive =>
                    /\ senders[c].buffer = <<>>
                    /\ senders[c].pending = <<>>
        /\ produced \o InHand(Caller) \o Rest(Caller) = Sequential(NStages)

\* C30 witness: through a channel of batch_size 2 a full batch of two
\* items was transmitted and collected, and the dropped Sender has flushed
\* the one item that remained, which is in the channel
C30_Witness ==
    /\ pipeline # NoCall
    /\ NStages >= 1
    /\ pipeline.config.batch_size = 2
    /\ Len(produced) = 2
    /\ ~senders[Caller].alive
    /\ Len(channels[Caller]) = 1
    /\ Len(channels[Caller][1]) = 1

====
